---- MODULE Spec2Model ----
(***************************************************************************)
(* Model of the Itano Circus missile simulation (ItanoCircusBabylon).      *)
(*                                                                         *)
(* Fixed-point conventions (the code computes in IEEE doubles):            *)
(*   - world coordinates and lengths: integer world units; intermediate    *)
(*     lengths in 1/100 unit, unit vectors in 1/1000;                      *)
(*   - an outcome of Math.random() in [0,1): an integer u in 0..99999      *)
(*     standing for u / 100000;                                            *)
(*   - a Bezier parameter t: a numerator over BezierTDen.                  *)
(***************************************************************************)
EXTENDS Integers, Sequences, FiniteSets, TLC

VARIABLES
    call,             \* the pure function applied and its result (specifications of pure functions)
    now,              \* Date.now(), ms since the page was loaded
    period,           \* the time between two frames of the render loop, ms
    MISSILE_LIFETIME, \* the constant missile.ts imports from ./constants, ms
    missiles,         \* scene.ts `missiles`: the array of live missiles
    timers,           \* pending setTimeout callbacks of launchMissileBarrage, in firing order
    nextBarrageTime,  \* scene.ts `nextBarrageTime`
    random,           \* Math.random(): the seed of the stream and the number of draws consumed
    attacker,         \* what updateMissiles reads of the attacker
    battlestation,    \* battlestation.metadata, as far as the rings and the barrage mode go
    inputs,           \* scene.ts pointerDown, lastPointerX/Y, inputMap and currentCameraMode
    history           \* record of creations, removals and launches (not program state)

world == <<now, period, MISSILE_LIFETIME, missiles, timers, nextBarrageTime, random, attacker,
          battlestation, inputs, history>>
vars == <<call, now, period, MISSILE_LIFETIME, missiles, timers, nextBarrageTime, random, attacker,
         battlestation, inputs, history>>

\* battlestation.metadata as createBattlestation sets it; ring speeds in 1/100000 rad a frame
createBattlestation ==
    [ isBarrageMode |-> FALSE,
      barrageStartTime |-> 0,
      ringSpinState |-> "idle",
      ringSpinStartTime |-> 0,
      ringCurrentSpeed |-> <<0, 0>>,
      ringTargetSpeed |-> <<0, 0>>,
      lastBarrageLaunchTime |-> 0 ]

CAMERA_MODE == [ NEUTRAL |-> 0, ATTACKER |-> 1, ATTACKER_SIDE |-> 2, ATTACKER_REAR |-> 3 ]

ArrowKeys == { "ArrowLeft", "ArrowRight", "ArrowUp", "ArrowDown" }

\* the input state of createScene before any event: no pointer held, no key in inputMap,
\* the neutral camera
InputIdle ==
    [ pointerDown |-> FALSE, lastPointerX |-> 0, lastPointerY |-> 0,
      inputMap |-> [ key \in ArrowKeys |-> FALSE ],
      currentCameraMode |-> CAMERA_MODE.NEUTRAL ]

\* nothing created, nothing scheduled
WorldIdle ==
    /\ now = 0
    /\ period = 0
    /\ MISSILE_LIFETIME = 0
    /\ missiles = <<>>
    /\ timers = <<>>
    /\ nextBarrageTime = 0
    /\ random = [seed |-> 0, drawn |-> 0]
    /\ attacker = [distance |-> 0, hitDistance |-> 0, bearing |-> <<0, 0, 0>>, heading |-> <<0, 0, 0>>,
                   trig |-> <<1000, 0>>]
    /\ battlestation = createBattlestation
    /\ inputs = InputIdle
    /\ history = [made |-> <<>>, origin |-> <<>>, fate |-> <<>>, launches |-> <<>>,
                  lastTick |-> -1, tickMade |-> 0, ringSince |-> 0]

----------------------------------------------------------------------------
(* Vector3 arithmetic (Babylon.js Vector3), on integer triples *)

Vec(x, y, z) == <<x, y, z>>
VZero == <<0, 0, 0>>
VAdd(a, b) == <<a[1] + b[1], a[2] + b[2], a[3] + b[3]>>
VSub(a, b) == <<a[1] - b[1], a[2] - b[2], a[3] - b[3]>>
\* integer division rounding toward zero, as a truncation of the real quotient
DivT(n, d) == IF n >= 0 THEN n \div d ELSE -((-n) \div d)
\* v scaled by num/den
VScale(v, num, den) == <<DivT(v[1] * num, den), DivT(v[2] * num, den), DivT(v[3] * num, den)>>

RECURSIVE SqrtSearch(_, _, _)
SqrtSearch(x, lo, hi) ==
    IF lo >= hi THEN lo
    ELSE LET mid == (lo + hi + 1) \div 2
         IN  IF mid * mid <= x THEN SqrtSearch(x, mid, hi) ELSE SqrtSearch(x, lo, mid - 1)
\* floor of the square root
ISqrt(x) == SqrtSearch(x, 0, IF x < 46340 THEN x ELSE 46340)

\* Vector3.length() of a vector in world units, in 1/100 unit
VLengthCenti(v) == ISqrt(10000 * (v[1] * v[1] + v[2] * v[2] + v[3] * v[3]))
\* Vector3.length() of a vector given in 1/1000, in 1/1000
VLengthMilli(v) == ISqrt(v[1] * v[1] + v[2] * v[2] + v[3] * v[3])
\* Vector3.normalize() of a world vector, as a unit vector in 1/1000;
\* a zero-length vector is left unchanged
VNormalize(v) ==
    LET len == VLengthCenti(v)
    IN  IF len = 0 THEN VZero ELSE VScale(v, 100000, len)
\* Vector3.normalize() of a vector given in 1/1000
VNormalizeMilli(v) ==
    LET len == VLengthMilli(v)
    IN  IF len = 0 THEN VZero ELSE VScale(v, 1000, len)
\* a unit vector (1/1000) scaled by a length (1/100 unit), in world units
VScaleUnit(u, lenCenti) == VScale(VScale(u, lenCenti, 1000), 1, 100)

----------------------------------------------------------------------------
(* The random source.  Math.random() is a seeded generator: the k-th draw   *)
(* of a run is a function of the seed.  Seeds 0 and 1 are the two extreme  *)
(* streams (always 0, always just below 1).                                *)

RandomSeeds == 0 .. 7

RandomDraw(seed, k) ==
    CASE seed = 0 -> 0
      [] seed = 1 -> 99999
      [] OTHER    -> (((seed * 7919 + (k % 1000) * 31337) % 100000) * 13) % 100000

\* utils.ts getRandomInt, on the draw u
getRandomInt(u, min, max) == (u * (max - min + 1)) \div 100000 + min

\* utils.ts getRandomFloat, on the draw u; min and max in any fixed-point unit
getRandomFloat(u, min, max) == DivT(u * (max - min), 100000) + min

----------------------------------------------------------------------------
(* Curve math (utils.ts) *)

BezierTDen == 4

BezierCoordWrongEnd(t, a0, a1, a2, a3) ==
    LET oneMinusT == BezierTDen - t
        oneMinusTSquared == oneMinusT * oneMinusT
        oneMinusTCubed == oneMinusTSquared * oneMinusT
        tSquared == t * t
        tCubed == tSquared * t
    IN  oneMinusTCubed * a0 + 3 * oneMinusTSquared * t * a1
          + 3 * oneMinusT * tSquared * a2 + tCubed * a2

\* one coordinate of calculateBezierPoint at t / BezierTDen, scaled by BezierTDen^3
BezierCoord(t, a0, a1, a2, a3) ==
    LET oneMinusT == BezierTDen - t
        oneMinusTSquared == oneMinusT * oneMinusT
        oneMinusTCubed == oneMinusTSquared * oneMinusT
        tSquared == t * t
        tCubed == tSquared * t
    IN  oneMinusTCubed * a0 + 3 * oneMinusTSquared * t * a1
          + 3 * oneMinusT * tSquared * a2 + tCubed * a3

\* calculateBezierPoint(t / BezierTDen, p0, p1, p2, p3), scaled by BezierTDen^3
calculateBezierPoint(t, p0, p1, p2, p3) ==
    << BezierCoord(t, p0[1], p1[1], p2[1], p3[1]),
       BezierCoord(t, p0[2], p1[2], p2[2], p3[2]),
       BezierCoord(t, p0[3], p1[3], p2[3], p3[3]) >>

\* a world point on the scale of calculateBezierPoint's result
BezierScaled(p) == VScale(p, BezierTDen * BezierTDen * BezierTDen, 1)

----------------------------------------------------------------------------
(* Path synthesizer (utils.ts).  The draws of one call are consumed from    *)
(* the stream of `seed`, starting after draw number k, in the order in     *)
(* which the code calls Math.random().                                     *)

\* the three "perpendicular" constructions of createBezierPath, chosen by randomChoice
PerpendicularChoice(randomChoice, direction) ==
    IF randomChoice < 33000 THEN Vec(direction[2], -direction[1], direction[3])
    ELSE IF randomChoice < 66000 THEN Vec(direction[3], direction[2], -direction[1])
    ELSE Vec(direction[1], direction[3], -direction[2])

createBezierPathEndsAtMid(startPos, targetPos, seed, k) ==
    LET toTarget == VSub(targetPos, startPos)
        distance == VLengthCenti(toTarget)
        direction == VNormalize(toTarget)
        midPointOffset == getRandomFloat(RandomDraw(seed, k + 1), 40, 60)
        midPoint == VAdd(startPos, VScaleUnit(direction, (distance * midPointOffset) \div 100))
    IN  << startPos, startPos, midPoint, midPoint >>

\* createBezierPath(startPos, targetPos): the 4 control points of one segment
createBezierPath(startPos, targetPos, seed, k) ==
    LET toTarget == VSub(targetPos, startPos)
        distance == VLengthCenti(toTarget)
        direction == VNormalize(toTarget)
        midPointOffset == getRandomFloat(RandomDraw(seed, k + 1), 40, 60)
        midPoint == VAdd(startPos, VScaleUnit(direction, (distance * midPointOffset) \div 100))
        randomChoice == RandomDraw(seed, k + 2)
        perp0 == VNormalizeMilli(PerpendicularChoice(randomChoice, direction))
        jittered == Vec(perp0[1] + getRandomFloat(RandomDraw(seed, k + 3), -300, 300),
                        perp0[2] + getRandomFloat(RandomDraw(seed, k + 4), -300, 300),
                        perp0[3] + getRandomFloat(RandomDraw(seed, k + 5), -300, 300))
        perpendicular == VNormalizeMilli(jittered)
        curveOffset == (distance * getRandomFloat(RandomDraw(seed, k + 6), 40, 70)) \div 100
        f1 == getRandomFloat(RandomDraw(seed, k + 7), 15, 30)
        c1 == getRandomFloat(RandomDraw(seed, k + 8), 50, 100)
        f2 == getRandomFloat(RandomDraw(seed, k + 9), 10, 25)
        c2 == getRandomFloat(RandomDraw(seed, k + 10), 60, 120)
    IN  << startPos,
           VAdd(VAdd(startPos, VScaleUnit(direction, (distance * f1) \div 100)),
                VScaleUnit(perpendicular, (curveOffset * c1) \div 100)),
           VAdd(VAdd(midPoint, VScaleUnit(direction, (distance * f2) \div 100)),
                VScaleUnit(perpendicular, (curveOffset * c2) \div 100)),
           targetPos >>

\* the intermediate point number i (1 .. numCurves-1) of createMultiBezierPath
IntermediatePoint(startPos, targetPos, numCurves, i, seed, k0) ==
    LET toTarget == VSub(targetPos, startPos)
        totalDistance == VLengthCenti(toTarget)
        direction == VNormalize(toTarget)
        k == k0 + 1 + 3 * (i - 1)
        segmentOffset == (100 * i) \div numCurves
        randomOffset == getRandomFloat(RandomDraw(seed, k + 1), -10, 10)
        segmentPosition == segmentOffset + randomOffset
        perpVector == VNormalizeMilli(
                          IF RandomDraw(seed, k + 2) < 50000
                          THEN Vec(direction[2], -direction[1], direction[3])
                          ELSE Vec(direction[3], direction[2], -direction[1]))
        perpOffset == (totalDistance * getRandomFloat(RandomDraw(seed, k + 3), 20, 50)) \div 100
    IN  VAdd(VAdd(startPos, VScaleUnit(direction, DivT(totalDistance * segmentPosition, 100))),
             VScaleUnit(perpVector, perpOffset))

\* intermediatePoints of createMultiBezierPath: start, the random waypoints, target
IntermediatePoints(startPos, targetPos, numCurves, seed, k) ==
    [ j \in 1 .. numCurves + 1 |->
        IF j = 1 THEN startPos
        ELSE IF j = numCurves + 1 THEN targetPos
        ELSE IntermediatePoint(startPos, targetPos, numCurves, j - 1, seed, k) ]

\* createMultiBezierPath(startPos, targetPos): numCurves chained segments
createMultiBezierPath(startPos, targetPos, seed, k) ==
    LET numCurves == getRandomInt(RandomDraw(seed, k + 1), 2, 4)
        intermediatePoints == IntermediatePoints(startPos, targetPos, numCurves, seed, k)
    IN  [ i \in 1 .. numCurves |->
            createBezierPath(intermediatePoints[i], intermediatePoints[i + 1], seed,
                             k + 1 + 3 * (numCurves - 1) + 10 * (i - 1)) ]

\* the number of draws one createMultiBezierPath call consumes after draw number k
MultiBezierDraws(seed, k) ==
    LET numCurves == getRandomInt(RandomDraw(seed, k + 1), 2, 4)
    IN  1 + 3 * (numCurves - 1) + 10 * numCurves

----------------------------------------------------------------------------
(* Specification SpecBezier: the curve functions applied to bounded inputs *)

BezierPoints == { Vec(0, 0, 0), Vec(3, -1, 2), Vec(-2, 5, 1) }
PathEnds == { Vec(0, 0, 0), Vec(0, 0, 100), Vec(30, 40, 0), Vec(-60, 20, 90) }

InitBezier == call = [fn |-> "none"] /\ WorldIdle

CallCalculateBezierPoint ==
    /\ call.fn = "none"
    /\ UNCHANGED world
    /\ \E t \in 0 .. BezierTDen : \E p0 \in BezierPoints, p1 \in BezierPoints,
                                  p2 \in BezierPoints, p3 \in BezierPoints :
        call' = [fn |-> "calculateBezierPoint", t |-> t,
                 p0 |-> p0, p1 |-> p1, p2 |-> p2, p3 |-> p3,
                 result |-> calculateBezierPoint(t, p0, p1, p2, p3)]

CallCreateBezierPath ==
    /\ call.fn = "none"
    /\ UNCHANGED world
    /\ \E startPos \in PathEnds, targetPos \in PathEnds, seed \in RandomSeeds :
        call' = [fn |-> "createBezierPath", startPos |-> startPos, targetPos |-> targetPos,
                 seed |-> seed, result |-> createBezierPath(startPos, targetPos, seed, 0)]

CallCreateMultiBezierPath ==
    /\ call.fn = "none"
    /\ UNCHANGED world
    /\ \E startPos \in PathEnds, targetPos \in PathEnds, seed \in RandomSeeds :
        call' = [fn |-> "createMultiBezierPath", startPos |-> startPos, targetPos |-> targetPos,
                 seed |-> seed, result |-> createMultiBezierPath(startPos, targetPos, seed, 0)]

NextBezier == CallCalculateBezierPoint \/ CallCreateBezierPath \/ CallCreateMultiBezierPath

SpecBezier == InitBezier /\ [][NextBezier]_vars

\* C8: createMultiBezierPath returns a connected chain of 2..4 segments of 4 control
\* points each, from start to target; createBezierPath returns one 4-point segment
\* from start to target.
C8_PathChain ==
    /\ call.fn = "createMultiBezierPath" =>
         LET r == call.result
             n == Len(r)
         IN  /\ n \in 2 .. 4
             /\ \A i \in 1 .. n : Len(r[i]) = 4
             /\ r[1][1] = call.startPos
             /\ r[n][4] = call.targetPos
             /\ \A i \in 1 .. n - 1 : r[i][4] = r[i + 1][1]
    /\ call.fn = "createBezierPath" =>
         /\ Len(call.result) = 4
         /\ call.result[1] = call.startPos
         /\ call.result[4] = call.targetPos

C8_Witness ==
    /\ call.fn = "createMultiBezierPath"
    /\ Len(call.result) = 4
    /\ call.startPos # call.targetPos
    /\ call.result[1][4] # call.startPos
    /\ call.result[1][4] # call.targetPos

\* C9: calculateBezierPoint at t = 0 is p0 and at t = 1 is p3, whatever p1 and p2 are.
C9_BezierEndpoints ==
    call.fn = "calculateBezierPoint" =>
        /\ call.t = 0 => call.result = BezierScaled(call.p0)
        /\ call.t = BezierTDen => call.result = BezierScaled(call.p3)

C9_Witness ==
    /\ call.fn = "calculateBezierPoint"
    /\ call.t = BezierTDen
    /\ call.p2 # call.p3
    /\ call.p1 # call.p3
    /\ call.p0 # call.p3

----------------------------------------------------------------------------
(* Formation model (missile.ts).                                           *)
(*   radius: 1/1000 world unit; speed: 1/1000 rad/s; axis: unit vector in  *)
(*   1/1000.  The phase (basePhase/(2 pi)) is kept exactly as the fraction *)
(*   num/den of a full turn, plus `adv`, the number of per-frame           *)
(*   increments applySpiralMotion has added; increments past MaxPhaseSteps *)
(*   are not told apart (only cos and sin of the phase are ever read).     *)

SPIRAL_SWARM == 0
DOUBLE_HELIX == 1
CONE_FORMATION == 2
WAVE_PATTERN == 3
MissileFormationType == { SPIRAL_SWARM, DOUBLE_HELIX, CONE_FORMATION, WAVE_PATTERN }

ITANO_MISSILE_COUNT_MIN == 15
ITANO_MISSILE_COUNT_MAX == 25

MaxPhaseSteps == 2

\* Math.sin(2 pi num/den) * 1000, by Bhaskara's rational approximation
\* (absolute error below 0.002, exact at multiples of pi/2, within [-1000, 1000])
SinTurnMilli(num, den) ==
    LET t == num % den
        neg == 2 * t > den
        a == IF neg THEN 2 * t - den ELSE 2 * t
        q == a * (den - a)
        v == (16000 * q) \div (5 * den * den - 4 * q)
    IN  IF neg THEN -v ELSE v

calculateSpiralParamsHelixAll(formationType, groupIndex, totalInGroup, startPos, targetPos, seed, k) ==
    [ radius |-> 8000, speed |-> 50,
      phase |-> [num |-> 2 * groupIndex + (groupIndex % 2) * totalInGroup,
                 den |-> 2 * totalInGroup, adv |-> 0],
      axis |-> VNormalize(VSub(targetPos, startPos)) ]

calculateSpiralParamsWideCone(formationType, groupIndex, totalInGroup, startPos, targetPos, seed, k) ==
    [ radius |-> (groupIndex * 30000) \div totalInGroup + 3000, speed |-> 50,
      phase |-> [num |-> 2 * groupIndex, den |-> 2 * totalInGroup, adv |-> 0],
      axis |-> VNormalize(VSub(targetPos, startPos)) ]

\* calculateSpiralParams(formationType, groupIndex, totalInGroup, startPos, targetPos)
calculateSpiralParams(formationType, groupIndex, totalInGroup, startPos, targetPos, seed, k) ==
    LET direction == VNormalize(VSub(targetPos, startPos))
        basePhase == [num |-> 2 * groupIndex, den |-> 2 * totalInGroup, adv |-> 0]
    IN  CASE formationType = SPIRAL_SWARM ->
               [ radius |-> getRandomFloat(RandomDraw(seed, k + 1), 3000, 12000),
                 speed |-> getRandomFloat(RandomDraw(seed, k + 2), 50, 150),
                 phase |-> basePhase,
                 axis |-> direction ]
          [] formationType = DOUBLE_HELIX ->
               [ radius |-> getRandomFloat(RandomDraw(seed, k + 1), 5000, 15000),
                 speed |-> IF groupIndex % 2 = 0 THEN 100 ELSE -100,
                 phase |-> [basePhase EXCEPT !.num = @ + (groupIndex % 2) * totalInGroup],
                 axis |-> direction ]
          [] formationType = CONE_FORMATION ->
               [ radius |-> (groupIndex * 20000) \div totalInGroup + 3000,
                 speed |-> getRandomFloat(RandomDraw(seed, k + 1), 30, 80),
                 phase |-> basePhase,
                 axis |-> direction ]
          [] formationType = WAVE_PATTERN ->
               [ radius |-> 8000 + 6 * SinTurnMilli(3 * groupIndex, totalInGroup),
                 speed |-> getRandomFloat(RandomDraw(seed, k + 1), 80, 120),
                 phase |-> basePhase,
                 axis |-> direction ]
          [] OTHER ->
               [ radius |-> 8000, speed |-> 50, phase |-> basePhase, axis |-> direction ]

maxSpiralSpeed == 500
maxRadius == 25
DELTA_TIME == 1667

Abs(x) == IF x < 0 THEN -x ELSE x
Sign(x) == IF x > 0 THEN 1 ELSE IF x < 0 THEN -1 ELSE 0
Min(a, b) == IF a <= b THEN a ELSE b
\* Vector3.Cross of two unit vectors in 1/1000, in 1/1000
VCrossMilli(a, b) ==
    Vec(DivT(a[2] * b[3] - a[3] * b[2], 1000),
        DivT(a[3] * b[1] - a[1] * b[3], 1000),
        DivT(a[1] * b[2] - a[2] * b[1], 1000))

\* applySpiralMotion(missile, basePosition, deltaTime).  trig = <<cos, sin>> of the
\* advanced phase, in 1/1000.  Returns the updated spiralParams, the offset vector
\* (1/1000 unit), the returned position and the values that were applied.
applySpiralMotion(spiralParams, basePosition, trig) ==
    LET clampedSpeed == Min(Abs(spiralParams.speed), maxSpiralSpeed) * Sign(spiralParams.speed)
        phase == [spiralParams.phase EXCEPT !.adv = Min(@ + 1, MaxPhaseSteps)]
        p1raw == Vec(spiralParams.axis[2], -spiralParams.axis[1], 0)
        perpendicular1 == VNormalizeMilli(IF VLengthMilli(p1raw) < 10 THEN Vec(1000, 0, 0) ELSE p1raw)
        perpendicular2 == VNormalizeMilli(VCrossMilli(spiralParams.axis, perpendicular1))
        clampedRadius == Min(spiralParams.radius, maxRadius * 1000)
        raw == VAdd(VScale(perpendicular1, DivT(trig[1] * clampedRadius, 1000), 1000),
                    VScale(perpendicular2, DivT(trig[2] * clampedRadius, 1000), 1000))
        spiralOffset == IF VLengthMilli(raw) > maxRadius * 1000
                        THEN VScale(VNormalizeMilli(raw), maxRadius * 1000, 1000)
                        ELSE raw
    IN  [ spiralParams |-> [spiralParams EXCEPT !.phase = phase],
          phaseDelta |-> clampedSpeed * DELTA_TIME,
          clampedSpeed |-> clampedSpeed,
          clampedRadius |-> clampedRadius,
          spiralOffset |-> spiralOffset,
          position |-> VAdd(basePosition, VScale(spiralOffset, 1, 1000)) ]

----------------------------------------------------------------------------
(* Specification SpecSpiral: the formation functions applied to bounded inputs *)

GroupSizes == ITANO_MISSILE_COUNT_MIN .. ITANO_MISSILE_COUNT_MAX
StationPosition == Vec(0, 0, 0)
\* attacker positions at creation time; the first coincides with the station
AttackerPositions == { Vec(0, 0, 0), Vec(0, 0, 100), Vec(120, -50, 30) }
TrigSamples == { <<1000, 0>>, <<0, 1000>>, <<-707, 707>>, <<600, -800>> }
SpiralSeeds == 0 .. 3

InitSpiral == call = [fn |-> "none"] /\ WorldIdle

CallCalculateSpiralParams ==
    /\ call.fn = "none"
    /\ UNCHANGED world
    /\ \E formationType \in MissileFormationType, totalInGroup \in GroupSizes,
          seed \in SpiralSeeds, targetPos \in AttackerPositions :
         \E groupIndex \in 0 .. totalInGroup - 1 :
            call' = [fn |-> "calculateSpiralParams", formationType |-> formationType,
                     groupIndex |-> groupIndex, totalInGroup |-> totalInGroup,
                     result |-> calculateSpiralParams(formationType, groupIndex, totalInGroup,
                                                      StationPosition, targetPos, seed, 0)]

\* the first frame's applySpiralMotion on a missile whose spiralParams were just derived
CallApplySpiralMotion ==
    /\ call.fn = "calculateSpiralParams"
    /\ UNCHANGED world
    /\ \E trig \in TrigSamples :
         LET r == applySpiralMotion(call.result, Vec(10, 20, 30), trig)
         IN  call' = [fn |-> "applySpiralMotion", formationType |-> call.formationType,
                      groupIndex |-> call.groupIndex, totalInGroup |-> call.totalInGroup,
                      before |-> call.result, result |-> r.spiralParams,
                      phaseDelta |-> r.phaseDelta,
                      clampedSpeed |-> r.clampedSpeed, clampedRadius |-> r.clampedRadius,
                      spiralOffset |-> r.spiralOffset, position |-> r.position]

\* the spiralParams of all members of one barrage (groupIndex 0 .. totalInGroup-1)
CallSpiralGroup ==
    /\ call.fn = "none"
    /\ UNCHANGED world
    /\ \E formationType \in MissileFormationType, totalInGroup \in GroupSizes,
          seed \in SpiralSeeds, targetPos \in AttackerPositions :
            call' = [fn |-> "spiralGroup", formationType |-> formationType,
                     totalInGroup |-> totalInGroup,
                     result |-> [ i \in 0 .. totalInGroup - 1 |->
                                    calculateSpiralParams(formationType, i, totalInGroup,
                                                          StationPosition, targetPos, seed, 2 * i) ]]

NextSpiral == CallCalculateSpiralParams \/ CallApplySpiralMotion \/ CallSpiralGroup

SpecSpiral == InitSpiral /\ [][NextSpiral]_vars

\* C6: calculateSpiralParams returns 0 <= radius <= 25 and |speed| <= 0.5 for every
\* formation type, group size and group index; the radius and angular speed applied
\* by applySpiralMotion are within those maxima and the offset has length <= 25.
C6_SpiralBounds ==
    /\ call.fn = "calculateSpiralParams" =>
         /\ 0 <= call.result.radius
         /\ call.result.radius <= maxRadius * 1000
         /\ Abs(call.result.speed) <= maxSpiralSpeed
    /\ call.fn = "applySpiralMotion" =>
         /\ 0 <= call.clampedRadius
         /\ call.clampedRadius <= maxRadius * 1000
         /\ Abs(call.clampedSpeed) <= maxSpiralSpeed
         /\ VLengthMilli(call.spiralOffset) <= maxRadius * 1000

C6_Witness ==
    /\ call.fn = "applySpiralMotion"
    /\ call.formationType = CONE_FORMATION
    /\ call.groupIndex = call.totalInGroup - 1
    /\ call.totalInGroup = ITANO_MISSILE_COUNT_MAX
    /\ call.clampedRadius > 22000
    /\ VLengthMilli(call.spiralOffset) > 21000

\* the phase as a fraction of a full turn, reduced modulo one turn, in 1/(2n) turns
PhaseModTurn(phase) == phase.num % phase.den

\* the initial phases of a full group are exactly { k * 2 pi / n : k = 0 .. n-1 }
\* and pairwise distinct modulo 2 pi
EvenlySpaced(group, n) ==
    /\ { PhaseModTurn(group[i].phase) : i \in 0 .. n - 1 } = { 2 * k : k \in 0 .. n - 1 }
    /\ \A i \in 0 .. n - 1 : \A j \in 0 .. n - 1 :
         i # j => PhaseModTurn(group[i].phase) # PhaseModTurn(group[j].phase)

\* C10 as stated: for every formation type, DOUBLE_HELIX included, the initial
\* phases of a full group are evenly spaced modulo 2 pi.
C10_EvenlySpacedAllTypes ==
    call.fn = "spiralGroup" => EvenlySpaced(call.result, call.totalInGroup)

\* C10 amended: the initial phases of a full group are evenly spaced modulo 2 pi for
\* SPIRAL_SWARM, CONE_FORMATION and WAVE_PATTERN, and for DOUBLE_HELIX when the group
\* size is a multiple of 4; in every DOUBLE_HELIX group the even members and the odd
\* members are each pairwise distinct modulo 2 pi, the odd members lying pi away from
\* the evenly spaced baseline.
C10_EvenlySpacedAmended ==
    call.fn = "spiralGroup" =>
        LET n == call.totalInGroup
            g == call.result
        IN  /\ (call.formationType # DOUBLE_HELIX \/ n % 4 = 0) => EvenlySpaced(g, n)
            /\ call.formationType = DOUBLE_HELIX =>
                 /\ \A i \in 0 .. n - 1 : \A j \in 0 .. n - 1 :
                      (i # j /\ i % 2 = j % 2) =>
                          PhaseModTurn(g[i].phase) # PhaseModTurn(g[j].phase)
                 /\ \A i \in 0 .. n - 1 :
                      PhaseModTurn(g[i].phase) = (2 * i + (i % 2) * n) % (2 * n)

C10_Witness ==
    /\ call.fn = "spiralGroup"
    /\ call.formationType = DOUBLE_HELIX
    /\ call.totalInGroup = 20
    /\ call.result[1].phase.num = 22

----------------------------------------------------------------------------
(* Missiles (missile.ts).                                                  *)
(*   speed: 1/1000; times: ms; bezierTime: 1/1000000; currentBezierPath:   *)
(*   0-based as in the code; distances to the attacker: 1/10 unit.         *)
(* A missile's world position and orientation (container.position,        *)
(* container.rotationQuaternion) are not tracked: the distance to the      *)
(* attacker before and after the move of a frame is an input of the frame, *)
(* and the control points of a path are kept relative to the position      *)
(* the path was created at (the path synthesizer commutes with             *)
(* translations).                                                          *)

MISSILE_SPEED == 15
ATTACKER_SPEED == 2
ATTACKER_SIZE == 5
MISSILE_LIFETIME_MIN == 12000
MISSILE_LIFETIME_MAX == 18000

MissileLifetimesShort == { MISSILE_LIFETIME_MIN - 1000 }

\* missile.ts imports MISSILE_LIFETIME from ./constants; constants.ts defines only the
\* band MISSILE_LIFETIME_MIN .. MISSILE_LIFETIME_MAX; a run takes one of its ends
MissileLifetimes == { MISSILE_LIFETIME_MIN, MISSILE_LIFETIME_MAX }

\* calculateNearMissTarget(originalTarget, missDistance)
calculateNearMissTarget(originalTarget, missDistance, seed, k) ==
    LET randomDirection == VNormalizeMilli(Vec(getRandomFloat(RandomDraw(seed, k + 1), -1000, 1000),
                                               getRandomFloat(RandomDraw(seed, k + 2), -1000, 1000),
                                               getRandomFloat(RandomDraw(seed, k + 3), -1000, 1000)))
    IN  VAdd(originalTarget, VScaleUnit(randomDirection, missDistance * 100))

\* the number of draws calculateSpiralParams consumes
SpiralDraws(formationType) ==
    IF formationType = SPIRAL_SWARM THEN 2
    ELSE IF formationType \in MissileFormationType THEN 1 ELSE 0

\* createItanoMissile(scene, startPosition, targetPosition, formationType, groupIndex,
\* totalInGroup, mappedAssets), called at time dateNow with MISSILE_LIFETIME = lifetime.
\* Returns the IMissile (id: the identity of the object) and the number k of the last
\* draw consumed.
createItanoMissile(id, startPosition, targetPosition, formationType, groupIndex, totalInGroup, dateNow, lifetime, seed, k) ==
    LET attackerDirection == VNormalize(VSub(targetPosition, startPosition))
        distanceToTarget == VLengthCenti(VSub(targetPosition, startPosition))
        rawInterceptDistance == (distanceToTarget * ATTACKER_SPEED) \div MISSILE_SPEED
        maxInterceptDistance == Min((distanceToTarget * 3) \div 2, 12000)
        interceptDistance == Min(rawInterceptDistance * 2, maxInterceptDistance)
        interceptPoint == VAdd(targetPosition, VScaleUnit(attackerDirection, interceptDistance))
        generated == createMultiBezierPath(startPosition, interceptPoint, seed, k)
        directPath == << startPosition,
                         VAdd(startPosition, VScale(VSub(interceptPoint, startPosition), 33, 100)),
                         VAdd(startPosition, VScale(VSub(interceptPoint, startPosition), 67, 100)),
                         interceptPoint >>
        bezierPaths == IF Len(generated) = 0 THEN <<directPath>> ELSE generated
        k1 == k + MultiBezierDraws(seed, k)
        initialSpeed == MISSILE_SPEED * getRandomFloat(RandomDraw(seed, k1 + 1), 900, 1100)
        spiralParams == calculateSpiralParams(formationType, groupIndex, totalInGroup,
                                              startPosition, targetPosition, seed, k1 + 1)
        k2 == k1 + 1 + SpiralDraws(formationType)
        isNearMiss == RandomDraw(seed, k2 + 1) < 70000
    IN  [ missile |->
            [ id |-> id,
              target |-> IF isNearMiss
                         THEN calculateNearMissTarget(interceptPoint, 15, seed, k2 + 1)
                         ELSE interceptPoint,
              speed |-> initialSpeed,
              lifetime |-> dateNow + lifetime,
              bezierPaths |-> bezierPaths,
              currentBezierPath |-> 0,
              bezierTime |-> 0,
              lastPathUpdateTime |-> dateNow,
              targetReached |-> FALSE,
              spiralParams |-> spiralParams,
              formationType |-> formationType,
              groupIndex |-> groupIndex,
              totalInGroup |-> totalInGroup,
              isNearMiss |-> isNearMiss,
              basePosition |-> startPosition ],
          k |-> IF isNearMiss THEN k2 + 4 ELSE k2 + 1 ]

PATH_UPDATE_INTERVAL_MIN == 2500
PATH_UPDATE_INTERVAL_MAX == 5000
MAX_SPEED_MULTIPLIER == 130
BEZIER_SPEED_FACTOR == 3

(* One frame's view of the attacker, as updateMissiles reads it for a missile:       *)
(*   distance: Vector3.Distance(container.position, attacker.mesh.position) before   *)
(*             the move, in 1/10;                                                    *)
(*   hitDistance: the same distance after the move (the hit test), in 1/10;          *)
(*   bearing:  the unit vector (1/1000) from the missile to the attacker;            *)
(*   heading:  attacker.mesh.getDirection(new Vector3(0, 0, 1)), unit vector;        *)
(*   trig:     <<cos, sin>> of the missile's spiral phase, 1/1000.                   *)

HasExpiredNever(missile, currentTime) == FALSE

HasExpiredAtDeadline(missile, currentTime) == currentTime >= missile.lifetime

\* the expiry test of updateMissiles
HasExpired(missile, currentTime) == currentTime > missile.lifetime

ShouldUpdatePathEarly(missile, currentTime, distanceToAttacker, seed, k) ==
    [ update |-> currentTime - missile.lastPathUpdateTime > 1000 \/ missile.targetReached,
      k |-> k + 1 ]

\* shouldUpdatePath of updateMissiles, with the draws it consumes (|| short-circuits)
ShouldUpdatePath(missile, currentTime, distanceToAttacker, seed, k) ==
    LET timeSinceLastUpdate == currentTime - missile.lastPathUpdateTime
        interval == getRandomInt(RandomDraw(seed, k + 1),
                                 PATH_UPDATE_INTERVAL_MIN, PATH_UPDATE_INTERVAL_MAX)
        early == timeSinceLastUpdate > interval \/ missile.targetReached
        near == distanceToAttacker < 500
    IN  [ update |-> early \/ (near /\ RandomDraw(seed, k + 2) < 10000),
          k |-> IF ~early /\ near THEN k + 2 ELSE k + 1 ]

RetargetMissileAlwaysMulti(missile, currentTime, frame, seed, k) ==
    LET interceptPoint == VAdd(VScaleUnit(frame.bearing, frame.distance * 10),
                               VScaleUnit(frame.heading, 8000))
    IN  [ missile |->
            [missile EXCEPT
               !.target = interceptPoint,
               !.bezierPaths = createMultiBezierPath(VZero, interceptPoint, seed, k + 2),
               !.currentBezierPath = 0,
               !.bezierTime = 0,
               !.targetReached = FALSE,
               !.lastPathUpdateTime = currentTime],
          k |-> k + 2 + MultiBezierDraws(seed, k + 2) ]

RetargetMissileKeepsFlag(missile, currentTime, frame, seed, k) ==
    [ missile |-> [missile EXCEPT !.currentBezierPath = 0, !.bezierTime = 0,
                                  !.lastPathUpdateTime = currentTime],
      k |-> k ]

RetargetMissileRenewsLifetime(missile, currentTime, frame, seed, k) ==
    [ missile |-> [missile EXCEPT !.lifetime = currentTime + MISSILE_LIFETIME_MIN,
                                  !.currentBezierPath = 0, !.bezierTime = 0,
                                  !.targetReached = FALSE,
                                  !.lastPathUpdateTime = currentTime],
      k |-> k ]

\* the path recalculation of updateMissiles (the body of `if (shouldUpdatePath)`);
\* positions are relative to container.position
RetargetMissile(missile, currentTime, frame, seed, k) ==
    LET distanceToAttacker == frame.distance
        interceptDistance ==
            IF distanceToAttacker < 300 THEN getRandomFloat(RandomDraw(seed, k + 1), 6000, 10000)
            ELSE IF distanceToAttacker < 800 THEN getRandomFloat(RandomDraw(seed, k + 1), 8000, 14000)
            ELSE getRandomFloat(RandomDraw(seed, k + 1), 10000, 18000)
        position == VZero
        attackerPosition == VScaleUnit(frame.bearing, distanceToAttacker * 10)
        interceptPoint == VAdd(attackerPosition, VScaleUnit(frame.heading, interceptDistance))
        speed == MISSILE_SPEED * getRandomFloat(RandomDraw(seed, k + 2), 900, 1100)
        direction == VNormalize(VSub(interceptPoint, position))
        perp0 == VNormalizeMilli(Vec(direction[2], -direction[1], direction[3]))
        perpVector == VNormalizeMilli(
                         Vec(perp0[1] + getRandomFloat(RandomDraw(seed, k + 3), -200, 200),
                             perp0[2] + getRandomFloat(RandomDraw(seed, k + 4), -200, 200),
                             perp0[3] + getRandomFloat(RandomDraw(seed, k + 5), -200, 200)))
        curveOffset == (distanceToAttacker * 10 * getRandomFloat(RandomDraw(seed, k + 6), 30, 50)) \div 100
        singleBezierPath ==
            << position,
               VAdd(VAdd(position, VScaleUnit(direction, distanceToAttacker * 3)),
                    VScaleUnit(perpVector, curveOffset)),
               VSub(VSub(interceptPoint, VScaleUnit(direction, distanceToAttacker * 2)),
                    VScaleUnit(perpVector, (curveOffset * 7) \div 10)),
               interceptPoint >>
        close == distanceToAttacker < 300
    IN  [ missile |->
            [missile EXCEPT
               !.target = interceptPoint,
               !.speed = speed,
               !.bezierPaths = IF close THEN <<singleBezierPath>>
                               ELSE createMultiBezierPath(position, interceptPoint, seed, k + 2),
               !.currentBezierPath = 0,
               !.bezierTime = 0,
               !.targetReached = FALSE,
               !.lastPathUpdateTime = currentTime],
          k |-> IF close THEN k + 6 ELSE k + 2 + MultiBezierDraws(seed, k + 2) ]

SpeedMultiplierUncapped(distanceToAttacker) ==
    IF distanceToAttacker < 300 THEN 800
    ELSE IF distanceToAttacker < 600 THEN 115 ELSE 100

\* speedMultiplier of updateMissiles, in 1/100
SpeedMultiplier(distanceToAttacker) ==
    IF distanceToAttacker < 300 THEN MAX_SPEED_MULTIPLIER
    ELSE IF distanceToAttacker < 600 THEN 115 ELSE 100

\* currentSpeed of updateMissiles, in 1/1000
CurrentSpeed(missile, distanceToAttacker) ==
    (missile.speed * SpeedMultiplier(distanceToAttacker)) \div 100

BezierCursorRunsOn(missile, bezierAdvancement) ==
    LET bezierTime == missile.bezierTime + bezierAdvancement
    IN  IF bezierTime >= 1000000
        THEN [missile EXCEPT !.currentBezierPath = @ + 1, !.bezierTime = 0]
        ELSE [missile EXCEPT !.bezierTime = bezierTime]

\* the advance along the curve of updateMissiles: bezierTime += bezierAdvancement, the
\* clamp to 1.0 and the move to the next curve or the setting of targetReached
BezierCursor(missile, bezierAdvancement) ==
    LET bezierTime == Min(missile.bezierTime + bezierAdvancement, 1000000)
    IN  IF bezierTime >= 1000000
        THEN IF missile.currentBezierPath < Len(missile.bezierPaths) - 1
             THEN [missile EXCEPT !.currentBezierPath = @ + 1, !.bezierTime = 0]
             ELSE [missile EXCEPT !.targetReached = TRUE, !.bezierTime = 1000000]
        ELSE [missile EXCEPT !.bezierTime = bezierTime]

\* calculateBezierPoint at bezierTime (1/1000000), evaluated at the resolution BezierTDen
BasePosition(bezierTime, currentPath) ==
    VScale(calculateBezierPoint((bezierTime * BezierTDen) \div 1000000,
                                currentPath[1], currentPath[2], currentPath[3], currentPath[4]),
           1, BezierTDen * BezierTDen * BezierTDen)

\* the flight of updateMissiles (the body of `if (missile.bezierPaths && ...length > 0)`):
\* currentPath is read before the advance; basePosition and the spiral phase are updated
FlyMissile(missile, distanceToAttacker, trig) ==
    IF Len(missile.bezierPaths) = 0 THEN missile
    ELSE LET currentPath == missile.bezierPaths[missile.currentBezierPath + 1]
             currentSpeed == CurrentSpeed(missile, distanceToAttacker)
             advanced == BezierCursor(missile, currentSpeed * BEZIER_SPEED_FACTOR)
             basePosition == BasePosition(advanced.bezierTime, currentPath)
             spiral == applySpiralMotion(missile.spiralParams, basePosition, trig)
         IN  [advanced EXCEPT !.basePosition = basePosition,
                              !.spiralParams = spiral.spiralParams]

\* movementDistance (1/1000) of the frame, 0 if the movement is rejected
MovementDistance(missile, distanceToAttacker) ==
    LET movementDistance == CurrentSpeed(missile, distanceToAttacker) \div 10
    IN  IF movementDistance < 10000 /\ movementDistance > 0 THEN movementDistance ELSE 0

HitsAttackerAnyMissile(missile, distance) == distance * 2 < ATTACKER_SIZE * 1000

\* the hit test of updateMissiles; distance in 1/1000
HitsAttacker(missile, distance) ==
    ~missile.isNearMiss /\ distance * 2 < ATTACKER_SIZE * 1000

SpliceSwapsLast(array, i) == [ j \in 1 .. Len(array) - 1 |-> IF j = i THEN array[Len(array)] ELSE array[j] ]

\* Array.prototype.splice(i, 1), i counted from 1
Splice(array, i) == [ j \in 1 .. Len(array) - 1 |-> IF j < i THEN array[j] ELSE array[j + 1] ]

\* the history entry of a missile that has just been created
NewFate == [ expired |-> 0, hit |-> 0, removedAt |-> -1, seen |-> -1, retargets |-> 0,
             from |-> -1, last |-> -1, raw |-> -1, visits |-> 0 ]

\* the rest of one iteration for a missile that has not expired, once the path has
\* been recalculated or kept (steered: the missile and the number of the last draw):
\* the flight, and what the iteration leaves to the hit test and to the history
ProcessSteered(steered, update, frame) ==
    [ missile |-> FlyMissile(steered.missile, frame.distance, frame.trig),
      k |-> steered.k,
      update |-> update,
      from |-> steered.missile.currentBezierPath,
      last |-> Len(steered.missile.bezierPaths) - 1,
      raw |-> steered.missile.bezierTime
                + CurrentSpeed(steered.missile, frame.distance) * BEZIER_SPEED_FACTOR,
      hitDistance |-> IF MovementDistance(steered.missile, frame.distance) > 0
                      THEN frame.hitDistance ELSE frame.distance ]

\* one iteration for a missile that has not expired, given shouldUpdatePath
ProcessDecided(missile, currentTime, frame, seed, decision) ==
    ProcessSteered(IF decision.update
                   THEN RetargetMissile(missile, currentTime, frame, seed, decision.k)
                   ELSE [ missile |-> missile, k |-> decision.k ],
                   decision.update, frame)

\* one iteration of the loop of updateMissiles for a missile that has not expired
ProcessMissile(missile, currentTime, frame, seed, k) ==
    ProcessDecided(missile, currentTime, frame, seed,
                   ShouldUpdatePath(missile, currentTime, frame.distance, seed, k))

\* the history of a missile that an iteration has processed
Processed(fate, id, currentTime, p) ==
    [fate EXCEPT ![id].seen = currentTime,
                 ![id].retargets = IF p.update THEN Min(@ + 1, 2) ELSE @,
                 ![id].from = p.from,
                 ![id].last = p.last,
                 ![id].raw = p.raw,
                 ![id].visits = @ + 1]

\* the history of a missile that an iteration has removed
Removed(fate, id, currentTime, how) ==
    [fate EXCEPT ![id].expired = IF how = "expired" THEN @ + 1 ELSE @,
                 ![id].hit = IF how = "hit" THEN @ + 1 ELSE @,
                 ![id].removedAt = currentTime,
                 ![id].visits = IF how = "expired" THEN @ + 1 ELSE @]

\* the loop of updateMissiles from index i (counted from 1) down to the first element;
\* k is the number of the last draw consumed, fate the history of the missiles
RECURSIVE UpdateLoop(_, _, _, _, _, _, _)

\* the end of an iteration whose missile p.missile has been processed: the hit test
HitTest(array, i, currentTime, frame, seed, fate, p) ==
    IF HitsAttacker(p.missile, p.hitDistance * 100)
    THEN UpdateLoop(Splice(array, i), i - 1, currentTime, frame, seed, p.k,
                    Removed(Processed(fate, p.missile.id, currentTime, p),
                            p.missile.id, currentTime, "hit"))
    ELSE UpdateLoop([array EXCEPT ![i] = p.missile], i - 1, currentTime, frame, seed, p.k,
                    Processed(fate, p.missile.id, currentTime, p))

UpdateLoopNoContinue(array, i, currentTime, frame, seed, k, fate) ==
    IF i < 1 THEN [ missiles |-> array, k |-> k, fate |-> fate ]
    ELSE IF HasExpired(array[i], currentTime)
         THEN LET p == ProcessMissile(array[i], currentTime, frame, seed, k)
              IN  UpdateLoop(Splice(array, i), i - 1, currentTime, frame, seed, p.k,
                             Removed(Processed(fate, array[i].id, currentTime, p),
                                     array[i].id, currentTime, "expired"))
         ELSE HitTest(array, i, currentTime, frame, seed, fate,
                      ProcessMissile(array[i], currentTime, frame, seed, k))

UpdateLoop(array, i, currentTime, frame, seed, k, fate) ==
    IF i < 1 THEN [ missiles |-> array, k |-> k, fate |-> fate ]
    ELSE IF HasExpired(array[i], currentTime)
         THEN UpdateLoop(Splice(array, i), i - 1, currentTime, frame, seed, k,
                         Removed(fate, array[i].id, currentTime, "expired"))
         ELSE HitTest(array, i, currentTime, frame, seed, fate,
                      ProcessMissile(array[i], currentTime, frame, seed, k))

\* updateMissiles(missiles, attacker, currentTime, mappedAssets)
updateMissiles(array, currentTime, frame, seed, k, fate) ==
    UpdateLoop(array, Len(array), currentTime, frame, seed, k, fate)

\* the smallest forward movement (1/1000) of a live missile at this distance
MinMovement(distance) == (MISSILE_SPEED * 900 * SpeedMultiplier(distance)) \div 1000

\* a frame whose distance after the move is within one movement of the distance before
FrameOK(frame) == Abs(frame.hitDistance - frame.distance) * 100 <= MinMovement(frame.distance)

----------------------------------------------------------------------------
(* Specification Spec: the life of one missile under updateMissiles, from   *)
(* its creation by a barrage callback to its removal.  The run's frame      *)
(* period, random stream and view of the attacker are chosen when the       *)
(* missile is created.                                                      *)

MaxTime == 24000
FramePeriods == { 50, 3000 }
FlightSeeds == 0 .. 3
Members == { <<SPIRAL_SWARM, 0, 15>>, <<DOUBLE_HELIX, 7, 16>> }
\* distance to the attacker before and after the move of a frame, 1/10
FlightDistances == { <<15, 0>>, <<30, 24>>, <<30, 25>>, <<290, 295>>, <<300, 300>>,
                     <<450, 450>>, <<700, 700>>, <<1000, 1000>> }
Frames == { [ distance |-> d[1], hitDistance |-> d[2], bearing |-> Vec(0, 600, 800),
              heading |-> Vec(1000, 0, 0), trig |-> <<-707, 707>> ] : d \in FlightDistances }

Init == call = [fn |-> "none"] /\ WorldIdle

\* the setTimeout callback of launchMissileBarrage: createItanoMissile and missiles.push
CreateMissile ==
    /\ history.made = <<>>
    /\ \E member \in Members, seed \in FlightSeeds, lifetime \in MissileLifetimes,
          frame \in Frames, dt \in FramePeriods :
         LET created == createItanoMissile(1, StationPosition, Vec(0, 0, 100),
                                           member[1], member[2], member[3],
                                           now, lifetime, seed, 0)
         IN  /\ FrameOK(frame)
             /\ MISSILE_LIFETIME' = lifetime
             /\ missiles' = Append(missiles, created.missile)
             /\ random' = [seed |-> seed, drawn |-> created.k]
             /\ attacker' = frame
             /\ period' = dt
             /\ history' = [history EXCEPT !.made = Append(@, created.missile),
                                           !.origin = Append(@, [barrage |-> 0, at |-> now]),
                                           !.fate = Append(@, NewFate)]
    /\ UNCHANGED <<call, now, timers, nextBarrageTime, battlestation, inputs>>

\* one frame of the render loop: updateMissiles with currentTime = Date.now()
UpdateMissiles ==
    /\ history.made # <<>>
    /\ now + period <= MaxTime
    /\ now' = now + period
    /\ LET r == updateMissiles(missiles, now', attacker, random.seed, random.drawn, history.fate)
       IN  /\ missiles' = r.missiles
           /\ random' = [random EXCEPT !.drawn = r.k]
           /\ history' = [history EXCEPT !.fate = r.fate, !.lastTick = now',
                                         !.tickMade = Len(history.made)]
    /\ UNCHANGED <<call, period, MISSILE_LIFETIME, timers, nextBarrageTime, attacker,
                   battlestation, inputs>>

Next == CreateMissile \/ UpdateMissiles

Spec == Init /\ [][Next]_vars

\* the missile created as number id is in the missiles array
Live(id) == \E i \in DOMAIN missiles : missiles[i].id = id

\* C1: a missile created with isNearMiss = true is never removed through the hit
\* branch, whatever its distance to the attacker in any frame (0 included); it leaves
\* the missiles array only through expiry.
C1_NearMissNeverHit ==
    \A id \in DOMAIN history.made :
        history.made[id].isNearMiss =>
            /\ history.fate[id].hit = 0
            /\ ~Live(id) => history.fate[id].expired = 1

C1_Witness ==
    \E i \in DOMAIN missiles :
        /\ missiles[i].isNearMiss
        /\ history.made[missiles[i].id].isNearMiss
        /\ history.fate[missiles[i].id].seen = now
        /\ attacker.hitDistance = 0
        /\ now > 0

\* C2: the timeout detonation of a missile fires exactly once, in the first
\* updateMissiles call whose currentTime is strictly greater than the missile's
\* lifetime, and the missile is not in the array when that call ends; it does not fire
\* in a call with currentTime <= lifetime, and every call processes every live missile.
C2_ExpiredOnce ==
    /\ \A id \in DOMAIN history.made :
          /\ history.fate[id].expired <= 1
          /\ history.fate[id].expired = 1 =>
                /\ ~Live(id)
                /\ history.fate[id].removedAt > history.made[id].lifetime
                /\ history.fate[id].seen <= history.made[id].lifetime
    /\ \A i \in DOMAIN missiles :
          /\ history.fate[missiles[i].id].expired = 0
          /\ missiles[i].id <= history.tickMade =>
                /\ history.fate[missiles[i].id].seen = history.lastTick
                /\ history.lastTick <= missiles[i].lifetime

C2_Witness ==
    /\ history.made # <<>>
    /\ history.fate[1].expired = 1
    /\ history.fate[1].seen = history.made[1].lifetime
    /\ history.fate[1].removedAt = history.made[1].lifetime + period
    /\ missiles = <<>>

\* C5: after every updateMissiles call, for every live missile,
\* 0 <= currentBezierPath <= bezierPaths.length - 1 and 0 <= bezierTime <= 1; when the
\* advance brings bezierTime to 1 on the last segment, targetReached is set in that call,
\* and on an earlier segment the cursor moves to the next segment with bezierTime = 0.
C5_CursorBounds ==
    \A i \in DOMAIN missiles :
        LET m == missiles[i]
            f == history.fate[m.id]
        IN  /\ 0 <= m.currentBezierPath
            /\ m.currentBezierPath <= Len(m.bezierPaths) - 1
            /\ 0 <= m.bezierTime
            /\ m.bezierTime <= 1000000
            /\ f.seen >= 0 =>
                 /\ (f.raw >= 1000000 /\ f.from = f.last) =>
                        (m.targetReached /\ m.bezierTime = 1000000 /\ m.currentBezierPath = f.from)
                 /\ (f.raw >= 1000000 /\ f.from < f.last) =>
                        (m.currentBezierPath = f.from + 1 /\ m.bezierTime = 0 /\ ~m.targetReached)
                 /\ f.raw < 1000000 =>
                        (m.currentBezierPath = f.from /\ m.bezierTime = f.raw /\ ~m.targetReached)

C5_Witness ==
    \E i \in DOMAIN missiles :
        /\ missiles[i].targetReached
        /\ Len(missiles[i].bezierPaths) >= 2
        /\ missiles[i].currentBezierPath = Len(missiles[i].bezierPaths) - 1
        /\ history.fate[missiles[i].id].from = history.fate[missiles[i].id].last

\* C7: no updateMissiles call, retargeting ones included, changes a live missile's
\* lifetime, formationType, groupIndex, totalInGroup, isNearMiss or the radius, speed and
\* axis of its spiralParams: they keep the values assigned in createItanoMissile.
C7_CreationFieldsFixed ==
    \A i \in DOMAIN missiles :
        LET m == missiles[i]
            c == history.made[m.id]
        IN  /\ m.lifetime = c.lifetime
            /\ m.formationType = c.formationType
            /\ m.groupIndex = c.groupIndex
            /\ m.totalInGroup = c.totalInGroup
            /\ m.isNearMiss = c.isNearMiss
            /\ m.spiralParams.radius = c.spiralParams.radius
            /\ m.spiralParams.speed = c.spiralParams.speed
            /\ m.spiralParams.axis = c.spiralParams.axis

C7_Witness ==
    \E i \in DOMAIN missiles :
        /\ history.fate[missiles[i].id].retargets >= 2
        /\ missiles[i].speed # history.made[missiles[i].id].speed
        /\ missiles[i].bezierPaths # history.made[missiles[i].id].bezierPaths
        /\ missiles[i].spiralParams.phase.adv > 0

----------------------------------------------------------------------------
(* Specification SpecScene: the render loop of scene.ts with its barrages.  *)
(* A frame runs every `period` ms; a setTimeout callback runs at its due    *)
(* time, before the next frame.  The run's random stream, frame period,    *)
(* MISSILE_LIFETIME and view of the attacker are chosen at the start.       *)

MISSILE_LAUNCH_INTERVAL_MIN == 2000
MISSILE_LAUNCH_INTERVAL_MAX == 4000

SceneSeeds == 0 .. 5
ScenePeriods == { 250 }
SceneDistances == { <<15, 0>>, <<1000, 1000>> }
SceneFrames == { [ distance |-> d[1], hitDistance |-> d[2], bearing |-> Vec(0, 600, 800),
                   heading |-> Vec(1000, 0, 0), trig |-> <<-707, 707>> ] : d \in SceneDistances }

Max(a, b) == IF a >= b THEN a ELSE b

\* attacker.mesh.position, as seen from the battlestation
AttackerPosition(frame) == VAdd(StationPosition, VScaleUnit(frame.bearing, frame.distance * 10))

\* setTimeout(callback, delay): the callback joins the pending ones, after those due no later
SetTimeout(pending, timer) ==
    LET n == Cardinality({ j \in DOMAIN pending : pending[j].due <= timer.due })
    IN  [ j \in 1 .. Len(pending) + 1 |->
            IF j <= n THEN pending[j] ELSE IF j = n + 1 THEN timer ELSE pending[j - 1] ]

SetTimeoutsNoDelay(pending, i, currentTime, missileCount, formationType, barrage) ==
    pending \o [ j \in 1 .. missileCount |->
                   [ due |-> currentTime, formationType |-> formationType,
                     i |-> j - 1, missileCount |-> missileCount, barrage |-> barrage ] ]

SetTimeoutsSharedIndex(pending, i, currentTime, missileCount, formationType, barrage) ==
    pending \o [ j \in 1 .. missileCount |->
                   [ due |-> currentTime + (j - 1) * 50, formationType |-> formationType,
                     i |-> missileCount, missileCount |-> missileCount, barrage |-> barrage ] ]

\* the for loop of launchMissileBarrage from i on: one setTimeout per i < missileCount, delay
\* i * 50, each callback holding its own i, the formationType and the missileCount
RECURSIVE SetTimeouts(_, _, _, _, _, _)
SetTimeouts(pending, i, currentTime, missileCount, formationType, barrage) ==
    IF i >= missileCount THEN pending
    ELSE SetTimeouts(SetTimeout(pending, [ due |-> currentTime + i * 50,
                                           formationType |-> formationType, i |-> i,
                                           missileCount |-> missileCount, barrage |-> barrage ]),
                     i + 1, currentTime, missileCount, formationType, barrage)

\* launchMissileBarrage(scene, battlestation, attacker, missiles, mappedAssets)
launchMissileBarrage(pending, currentTime, seed, k, barrage) ==
    LET missileCount == getRandomInt(RandomDraw(seed, k + 1),
                                     ITANO_MISSILE_COUNT_MIN, ITANO_MISSILE_COUNT_MAX)
        formationType == getRandomInt(RandomDraw(seed, k + 2), 0, 3)
    IN  [ timers |-> SetTimeouts(pending, 0, currentTime, missileCount, formationType, barrage),
          missileCount |-> missileCount,
          formationType |-> formationType,
          k |-> k + 2 ]

\* Math.min((currentTime - ringSpinStartTime) / duration, 1), 1/1000
SpinProgress(metadata, currentTime, duration) ==
    Min(((currentTime - metadata.ringSpinStartTime) * 1000) \div duration, 1000)

\* 1 - Math.pow(1 - progress, 3), 1/1000
EaseOutCubic(progress) == 1000 - (((1000 - progress) * (1000 - progress) * (1000 - progress)) \div 1000000)

\* Math.pow(1 - progress, 2), 1/1000
EaseInQuadratic(progress) == ((1000 - progress) * (1000 - progress)) \div 1000

RingSpinStartedOnAnyLaunch(metadata, isLaunchingBarrage, shouldSpinDown, currentTime) ==
    IF isLaunchingBarrage /\ metadata.ringSpinState \in {"idle", "spinning_down"}
    THEN [metadata EXCEPT !.ringSpinState = "spinning_up", !.ringSpinStartTime = currentTime,
                          !.ringTargetSpeed = <<8000, -6000>>]
    ELSE IF shouldSpinDown /\ metadata.ringSpinState \in {"active", "spinning_up"}
    THEN [metadata EXCEPT !.ringSpinState = "spinning_down", !.ringSpinStartTime = currentTime,
                          !.ringTargetSpeed = <<0, 0>>]
    ELSE metadata

\* the first if / else if of updateBattlestationAnimations: a spin-up or a spin-down starts
RingSpinStarted(metadata, isLaunchingBarrage, shouldSpinDown, currentTime) ==
    IF isLaunchingBarrage /\ metadata.ringSpinState = "idle"
    THEN [metadata EXCEPT !.ringSpinState = "spinning_up", !.ringSpinStartTime = currentTime,
                          !.ringTargetSpeed = <<8000, -6000>>]
    ELSE IF shouldSpinDown /\ metadata.ringSpinState \in {"active", "spinning_up"}
    THEN [metadata EXCEPT !.ringSpinState = "spinning_down", !.ringSpinStartTime = currentTime,
                          !.ringTargetSpeed = <<0, 0>>]
    ELSE metadata

\* the second if / else if: the ring speeds of a transition, and its end
RingSpeedUpdated(metadata, currentTime) ==
    IF metadata.ringSpinState = "spinning_up"
    THEN LET progress == SpinProgress(metadata, currentTime, 2000)
             easedProgress == EaseOutCubic(progress)
         IN  [metadata EXCEPT
                !.ringCurrentSpeed = << DivT(metadata.ringTargetSpeed[1] * easedProgress, 1000),
                                        DivT(metadata.ringTargetSpeed[2] * easedProgress, 1000) >>,
                !.ringSpinState = IF progress >= 1000 THEN "active" ELSE @]
    ELSE IF metadata.ringSpinState = "spinning_down"
    THEN LET progress == SpinProgress(metadata, currentTime, 3000)
             easedProgress == EaseInQuadratic(progress)
         IN  IF progress >= 1000
             THEN [metadata EXCEPT !.ringSpinState = "idle", !.ringCurrentSpeed = <<0, 0>>]
             ELSE [metadata EXCEPT
                     !.ringCurrentSpeed = << metadata.ringTargetSpeed[1] + DivT(8000 * easedProgress, 1000),
                                             metadata.ringTargetSpeed[2] + DivT(-6000 * easedProgress, 1000) >>]
    ELSE metadata

\* the barrage mode: entered by a launch, left when the spin-down delay has passed
BarrageModeUpdated(metadata, isLaunchingBarrage, shouldSpinDown, currentTime) ==
    IF isLaunchingBarrage /\ ~metadata.isBarrageMode
    THEN [metadata EXCEPT !.isBarrageMode = TRUE, !.barrageStartTime = currentTime]
    ELSE IF shouldSpinDown /\ metadata.isBarrageMode
    THEN [metadata EXCEPT !.isBarrageMode = FALSE]
    ELSE metadata

\* the spin-down condition, on the metadata with this frame's launch recorded
ShouldSpinDown(tracked, currentTime) ==
    tracked.lastBarrageLaunchTime > 0 /\ currentTime - tracked.lastBarrageLaunchTime > 2000

\* updateBattlestationAnimations(battlestation, isLaunchingBarrage, missileCount, currentTime,
\* scene), on the metadata: the rings and the barrage mode
updateBattlestationAnimations(metadata, isLaunchingBarrage, currentTime) ==
    LET tracked == IF isLaunchingBarrage
                   THEN [metadata EXCEPT !.lastBarrageLaunchTime = currentTime]
                   ELSE metadata
        shouldSpinDown == ShouldSpinDown(tracked, currentTime)
    IN  BarrageModeUpdated(
            RingSpeedUpdated(RingSpinStarted(tracked, isLaunchingBarrage, shouldSpinDown, currentTime),
                             currentTime),
            isLaunchingBarrage, shouldSpinDown, currentTime)

\* the time of the last change of ringSpinState, for the record
RingSince(before, after, currentTime, since) ==
    IF after.ringSpinState # before.ringSpinState THEN currentTime ELSE since

ShouldLaunchWhileLive(currentTime, nextTime, array) == currentTime > nextTime

\* the launch test of the render loop
ShouldLaunch(currentTime, nextTime, array) == currentTime > nextTime /\ Len(array) = 0

InitScene ==
    /\ call = [fn |-> "none"]
    /\ now = 0
    /\ period \in ScenePeriods
    /\ MISSILE_LIFETIME \in MissileLifetimes
    /\ missiles = <<>>
    /\ timers = <<>>
    /\ nextBarrageTime = now + 2000
    /\ random \in [seed : SceneSeeds, drawn : {0}]
    /\ attacker \in { frame \in SceneFrames : FrameOK(frame) }
    /\ battlestation = createBattlestation
    /\ inputs = InputIdle
    /\ history = [made |-> <<>>, origin |-> <<>>, fate |-> <<>>, launches |-> <<>>,
                  lastTick |-> -1, tickMade |-> 0, ringSince |-> 0]

\* missiles.push(missile) of the callback, and its record
PushMissile(created, timer) ==
    /\ missiles' = Append(missiles, created.missile)
    /\ random' = [random EXCEPT !.drawn = created.k]
    /\ history' = [history EXCEPT !.made = Append(@, created.missile),
                                  !.origin = Append(@, [barrage |-> timer.barrage, at |-> now']),
                                  !.fate = Append(@, NewFate)]

\* the first pending setTimeout callback of launchMissileBarrage runs
TimerFires ==
    /\ timers # <<>>
    /\ timers[1].due <= now + period
    /\ now' = Max(now, timers[1].due)
    /\ timers' = Tail(timers)
    /\ PushMissile(createItanoMissile(Len(history.made) + 1, StationPosition,
                                      AttackerPosition(attacker), timers[1].formationType,
                                      timers[1].i, timers[1].missileCount,
                                      now', MISSILE_LIFETIME, random.seed, random.drawn),
                   timers[1])
    /\ UNCHANGED <<call, period, MISSILE_LIFETIME, nextBarrageTime, attacker, battlestation, inputs>>

\* the barrage launch of the render loop, and its record
Launch(launched, currentTime, updated) ==
    /\ timers' = launched.timers
    /\ nextBarrageTime' = currentTime + getRandomInt(RandomDraw(random.seed, launched.k + 1),
                                                     MISSILE_LAUNCH_INTERVAL_MIN,
                                                     MISSILE_LAUNCH_INTERVAL_MAX)
    /\ random' = [random EXCEPT !.drawn = launched.k + 1]
    /\ history' = [history EXCEPT
                     !.fate = updated.fate, !.lastTick = currentTime,
                     !.tickMade = Len(history.made),
                     !.ringSince = RingSince(battlestation, battlestation', currentTime, @),
                     !.launches = Append(@, [ time |-> currentTime,
                                              missileCount |-> launched.missileCount,
                                              formationType |-> launched.formationType,
                                              live |-> Len(updated.missiles),
                                              before |-> nextBarrageTime,
                                              next |-> nextBarrageTime' ])]

\* the rest of a frame after updateMissiles has returned `updated`
AfterUpdate(updated, currentTime) ==
    /\ missiles' = updated.missiles
    /\ battlestation' = updateBattlestationAnimations(
                            battlestation,
                            ShouldLaunch(currentTime, nextBarrageTime, updated.missiles),
                            currentTime)
    /\ IF ShouldLaunch(currentTime, nextBarrageTime, updated.missiles)
       THEN Launch(launchMissileBarrage(timers, currentTime, random.seed, updated.k,
                                        Len(history.launches) + 1),
                   currentTime, updated)
       ELSE /\ random' = [random EXCEPT !.drawn = updated.k]
            /\ history' = [history EXCEPT !.fate = updated.fate, !.lastTick = currentTime,
                                          !.tickMade = Len(history.made),
                                          !.ringSince = RingSince(battlestation, battlestation',
                                                                  currentTime, @)]
            /\ UNCHANGED <<timers, nextBarrageTime>>

\* one frame of the render loop (scene.onBeforeRenderObservable)
RenderFrame ==
    /\ now + period <= MaxTime
    /\ IF timers = <<>> THEN TRUE ELSE timers[1].due > now + period
    /\ now' = now + period
    /\ AfterUpdate(updateMissiles(missiles, now', attacker, random.seed, random.drawn,
                                  history.fate),
                   now')
    /\ UNCHANGED <<call, period, MISSILE_LIFETIME, attacker, inputs>>

NextScene == TimerFires \/ RenderFrame

SpecScene == InitScene /\ [][NextScene]_vars

\* the setTimeout callbacks of barrage number b that have not run yet
PendingOf(b) == { j \in DOMAIN timers : timers[j].barrage = b }
\* the missiles that barrage number b has created
CreatedBy(b) == { id \in DOMAIN history.made : history.origin[id].barrage = b }

\* C3: launchMissileBarrage is called in a frame only if currentTime > nextBarrageTime
\* and the missiles array is empty at that moment; nextBarrageTime changes only at a
\* launch, to currentTime plus an interval in [2000, 4000] ms, so two consecutive
\* launches are more than 2000 ms apart.
C3_LaunchGate ==
    /\ \A b \in DOMAIN history.launches :
         LET l == history.launches[b]
         IN  /\ l.time > l.before
             /\ l.live = 0
             /\ l.next - l.time >= MISSILE_LAUNCH_INTERVAL_MIN
             /\ l.next - l.time <= MISSILE_LAUNCH_INTERVAL_MAX
             /\ l.before = IF b = 1 THEN 2000 ELSE history.launches[b - 1].next
             /\ b > 1 => l.time - history.launches[b - 1].time > 2000
    /\ nextBarrageTime = IF history.launches = <<>> THEN 2000
                         ELSE history.launches[Len(history.launches)].next

C3_Witness ==
    /\ Len(history.launches) >= 2
    /\ history.launches[2].time - history.launches[1].next > 2000
    /\ Len(history.made) >= ITANO_MISSILE_COUNT_MIN

\* C4: every missile a barrage creates has the barrage's formationType and
\* totalInGroup = its count n (15 <= n <= 25); the groupIndex values of its missiles are
\* pairwise distinct, and are exactly 0 .. n-1 once all its callbacks have run.
C4_BarrageMembers ==
    \A b \in DOMAIN history.launches :
        LET l == history.launches[b]
            ids == CreatedBy(b)
        IN  /\ l.missileCount >= ITANO_MISSILE_COUNT_MIN
            /\ l.missileCount <= ITANO_MISSILE_COUNT_MAX
            /\ l.formationType \in MissileFormationType
            /\ \A id \in ids : /\ history.made[id].formationType = l.formationType
                               /\ history.made[id].totalInGroup = l.missileCount
            /\ \A id1 \in ids : \A id2 \in ids :
                 id1 # id2 => history.made[id1].groupIndex # history.made[id2].groupIndex
            /\ PendingOf(b) = {} =>
                 { history.made[id].groupIndex : id \in ids } = 0 .. l.missileCount - 1

C4_Witness ==
    \E b \in DOMAIN history.launches :
        /\ PendingOf(b) = {}
        /\ Cardinality(CreatedBy(b)) = history.launches[b].missileCount
        /\ history.launches[b].missileCount > ITANO_MISSILE_COUNT_MIN
        /\ history.launches[b].formationType # SPIRAL_SWARM

----------------------------------------------------------------------------
(* Specification SpecLag: the render loop when setTimeout callbacks run     *)
(* late.  A callback never runs before its due time but may run after      *)
(* it: once, during the first barrage, the first frame after               *)
(* nextBarrageTime runs while callbacks that are already due are pending.  *)

LagSeeds == { 0, 1 }
\* how many callbacks of the barrage have run when the frame overtakes the others
StallPoints == { 0, 3 }

InitLag ==
    /\ InitScene
    /\ random.seed \in LagSeeds
    /\ MISSILE_LIFETIME = MISSILE_LIFETIME_MIN
    /\ attacker.hitDistance = 0

\* a frame that runs ahead of the callbacks that are due: the first one after nextBarrageTime
StalledFrame ==
    /\ timers # <<>>
    /\ Len(history.launches) = 1
    /\ Len(history.made) \in StallPoints
    /\ now <= nextBarrageTime
    /\ nextBarrageTime + period <= MaxTime
    /\ now' = nextBarrageTime + period
    /\ AfterUpdate(updateMissiles(missiles, now', attacker, random.seed, random.drawn,
                                  history.fate),
                   now')
    /\ UNCHANGED <<call, period, MISSILE_LIFETIME, attacker, inputs>>

NextLag == TimerFires \/ RenderFrame \/ StalledFrame

SpecLag == InitLag /\ [][NextLag]_vars

\* C12: in every frame that launches a barrage, no setTimeout callback of an earlier
\* barrage is still pending; the pending callbacks all belong to the latest barrage.
C12_NoPendingAtLaunch ==
    \A j \in DOMAIN timers : timers[j].barrage = Len(history.launches)

----------------------------------------------------------------------------
(* The attacker (attacker.ts).  position is in 1/100 unit; the orientation  *)
(* of the mesh is the triple of its local axes right, up, forward, unit     *)
(* vectors in 1/1000; bezierTime is in 1/1000000; control points of a path  *)
(* are in world units, the position being rounded when a path is created.   *)

STATION_SIZE == 20
STATION_AVOIDANCE_DISTANCE == STATION_SIZE * 4
STATION_REPULSION_STRENGTH == 6
\* cos and sin of maxAngle = 25 degrees, 1/1000
MaxAngleCos == 906
MaxAngleSin == 423

\* Vector3.Dot of two vectors in 1/1000, in 1/1000
VDotMilli(a, b) == DivT(a[1] * b[1] + a[2] * b[2] + a[3] * b[3], 1000)

\* utils.ts calculateBezierTangent at t = tc / 100, on world-unit control points, in 1/10 unit
calculateBezierTangent(tc, p0, p1, p2, p3) ==
    LET oneMinusT == 100 - tc
        term1 == VScale(VSub(p1, p0), 3 * oneMinusT * oneMinusT, 1000)
        term2 == VScale(VSub(p2, p1), 6 * oneMinusT * tc, 1000)
        term3 == VScale(VSub(p3, p2), 3 * tc * tc, 1000)
    IN  VAdd(VAdd(term1, term2), term3)

\* v.applyRotationQuaternion(Quaternion.RotationAxis(axis, angle)): v turned about the unit
\* vector axis by the angle of the given cos and sin; all in 1/1000
RotateAboutAxis(v, axis, cos, sin) ==
    VAdd(VAdd(VScale(v, cos, 1000), VScale(VCrossMilli(axis, v), sin, 1000)),
         VScale(axis, DivT(VDotMilli(axis, v) * (1000 - cos), 1000), 1000))

\* a position in 1/100 unit rounded to world units
ToWorld(position) == VScale(position, 1, 100)

\* the attacker's path state
PathState(a) == << a.bezierPaths, a.currentBezierPath, a.bezierTime, a.lastPathUpdateTime, a.targetChangeTime, a.targetReached >>
\* the attacker's position and orientation
Pose(a) == << a.position, a.right, a.up, a.forward >>

\* updateUserControlledAttacker(attacker); yaw and pitch in 1/1000 rad, small enough for
\* sin x = x and cos x = 1 - x^2 / 2
updateUserControlledAttacker(a) ==
    LET rotationSpeed == 1
        yaw == a.yaw * rotationSpeed
        pitch == a.pitch * rotationSpeed
        cosYaw == 1000 - (yaw * yaw) \div 2000
        cosPitch == 1000 - (pitch * pitch) \div 2000
        \* the images of the local axes under yawQuat.multiply(pitchQuat)
        localForward == Vec(DivT(yaw * cosPitch, 1000), pitch, DivT(cosYaw * cosPitch, 1000))
        localUp == Vec(-DivT(yaw * pitch, 1000), cosPitch, -DivT(cosYaw * pitch, 1000))
        localRight == Vec(cosYaw, 0, -yaw)
        axes(l) == VNormalizeMilli(VAdd(VAdd(VScale(a.right, l[1], 1000), VScale(a.up, l[2], 1000)),
                                         VScale(a.forward, l[3], 1000)))
        turned == IF a.pitch # 0 \/ a.yaw # 0
                  THEN [a EXCEPT !.right = axes(localRight), !.up = axes(localUp),
                                 !.forward = axes(localForward)]
                  ELSE a
    IN  [turned EXCEPT !.position = VAdd(a.position, VScale(turned.forward, a.speed, 10))]

StationAvoidanceSurfaceMax(position, station) ==
    LET awayFromStation == VSub(position, VScale(station, 100, 1))
        distanceToBattlestation == VLengthMilli(awayFromStation)
        depth == IF distanceToBattlestation < STATION_SIZE * 50 THEN STATION_SIZE * 50
                 ELSE distanceToBattlestation
    IN  IF distanceToBattlestation < STATION_AVOIDANCE_DISTANCE * 100
        THEN [ needed |-> TRUE,
               force |-> IF distanceToBattlestation > 1
                         THEN VScale(VNormalizeMilli(awayFromStation),
                                     STATION_REPULSION_STRENGTH * 1000 -
                                        (STATION_REPULSION_STRENGTH * 10 * depth)
                                            \div STATION_AVOIDANCE_DISTANCE, 1000)
                         ELSE VZero ]
        ELSE [ needed |-> FALSE, force |-> VZero ]

StationAvoidanceOff(position, station) == [ needed |-> FALSE, force |-> VZero ]

\* the repulsion away from the battlestation: [needed, force], force in 1/1000
StationAvoidance(position, station) ==
    LET awayFromStation == VSub(position, VScale(station, 100, 1))
        distanceToBattlestation == VLengthMilli(awayFromStation)
        repulsionStrength == STATION_REPULSION_STRENGTH * 1000 -
                             (STATION_REPULSION_STRENGTH * 10 * distanceToBattlestation)
                                 \div STATION_AVOIDANCE_DISTANCE
    IN  IF distanceToBattlestation < STATION_AVOIDANCE_DISTANCE * 100
        THEN [ needed |-> TRUE,
               force |-> IF distanceToBattlestation > 1
                         THEN VScale(VNormalizeMilli(awayFromStation), repulsionStrength, 1000)
                         ELSE VZero ]
        ELSE [ needed |-> FALSE, force |-> VZero ]

ClampTargetUnclamped(position, forward, candidate) == VScale(candidate, 100, 1)

\* the turn limit of a retarget: the candidate (world units) if it lies within maxAngle of
\* the heading, else the point at the same distance in the heading turned by maxAngle
\* toward it; the result is in 1/100 unit
ClampTarget(position, forward, candidate) ==
    LET toCandidate == VScale(VSub(VScale(candidate, 100, 1), position), 1, 10)
        distance == VLengthMilli(toCandidate)
        fwd == VNormalizeMilli(forward)
        directionToTarget == VNormalizeMilli(toCandidate)
        rotationAxis == VCrossMilli(fwd, directionToTarget)
        arbitraryAxis == IF Abs(VDotMilli(fwd, Vec(0, 1000, 0))) > 990
                         THEN Vec(1000, 0, 0) ELSE Vec(0, 1000, 0)
        axis == IF rotationAxis[1] * rotationAxis[1] + rotationAxis[2] * rotationAxis[2]
                     + rotationAxis[3] * rotationAxis[3] > 1000
                THEN VNormalizeMilli(rotationAxis) ELSE arbitraryAxis
        newDirection == RotateAboutAxis(fwd, axis, MaxAngleCos, MaxAngleSin)
    IN  IF VDotMilli(fwd, directionToTarget) >= MaxAngleCos
        THEN VScale(candidate, 100, 1)
        ELSE VAdd(position, VScale(newDirection, distance, 100))

\* the new target candidate around the battlestation (world units); draws k+2 .. k+4
TargetCandidate(station, seed, k) ==
    LET angle == RandomDraw(seed, k + 2) \div 1000
        height == getRandomFloat(RandomDraw(seed, k + 3), -100, 100)
        radius == getRandomFloat(RandomDraw(seed, k + 4), 140, 220)
    IN  VAdd(station, Vec(DivT(SinTurnMilli(angle + 25, 100) * radius, 1000), height,
                          DivT(SinTurnMilli(angle, 100) * radius, 1000)))

\* the attacker on the fresh path to newTarget
Retargeted(a, newTarget, currentTime, seed, k) ==
    [ attacker |-> [a EXCEPT !.bezierPaths = << createBezierPath(ToWorld(a.position),
                                                                  ToWorld(newTarget), seed, k) >>,
                             !.currentBezierPath = 0,
                             !.bezierTime = 0,
                             !.targetChangeTime = currentTime,
                             !.lastPathUpdateTime = currentTime],
      k |-> k + 10, retargeted |-> TRUE, newTarget |-> newTarget ]

AIRetargetCooldownOnly(a, station, currentTime, seed, k) ==
    IF currentTime - a.lastPathUpdateTime > getRandomFloat(RandomDraw(seed, k + 1), 6000, 8000)
    THEN Retargeted(a, ClampTarget(a.position, a.forward, TargetCandidate(station, seed, k)),
                    currentTime, seed, k + 4)
    ELSE [ attacker |-> a, k |-> k + 1, retargeted |-> FALSE, newTarget |-> VZero ]

\* the retarget step of updateAIControlledAttacker; draw k+1 is the update interval
AIRetarget(a, station, currentTime, seed, k) ==
    LET pathComplete == a.bezierTime >= 1000000
        timeSinceLastUpdate == currentTime - a.lastPathUpdateTime
        shouldUpdatePath == timeSinceLastUpdate > getRandomFloat(RandomDraw(seed, k + 1), 6000, 8000)
    IN  IF pathComplete \/ shouldUpdatePath
        THEN Retargeted(a, ClampTarget(a.position, a.forward, TargetCandidate(station, seed, k)),
                        currentTime, seed, k + 4)
        ELSE [ attacker |-> a, k |-> k + 1, retargeted |-> FALSE, newTarget |-> VZero ]

\* Quaternion.SlerpToRef(rotation, createRotationQuaternion(movementDirection), 0.1): the
\* axes after a tenth of the turn toward movementDirection (normalised interpolation)
Steer(a, movementDirection, forward) ==
    LET side == VCrossMilli(Vec(0, 1000, 0), forward)
        right == IF VLengthMilli(side) > 10 THEN VNormalizeMilli(side) ELSE a.right
    IN  [a EXCEPT !.forward = forward, !.right = right,
                  !.up = VNormalizeMilli(VCrossMilli(forward, right))]

\* the cursor of the attacker after an advance to bezierTime raw
AttackerCursor(a, raw) ==
    IF raw < 1000000 THEN [a EXCEPT !.bezierTime = raw]
    ELSE IF a.currentBezierPath < Len(a.bezierPaths) - 1
         THEN [a EXCEPT !.currentBezierPath = @ + 1, !.bezierTime = 0]
         ELSE [a EXCEPT !.bezierTime = 1000000, !.targetReached = TRUE]

\* the movement along the tangent (1/10 unit), pushed by the station's repulsion
AIMoveAlong(a, tangent, movementDirection) ==
    LET tangentLength == VLengthMilli(tangent)
        raw == IF tangentLength > 0
               THEN Min(a.bezierTime + (a.speed * 100000) \div tangentLength, 1000000)
               ELSE Min(a.bezierTime + 10000, 1000000)
        moved == [AttackerCursor(a, raw) EXCEPT
                     !.position = VAdd(a.position, VScale(movementDirection, a.speed, 10))]
    IN  IF VLengthMilli(movementDirection) > 10
        THEN Steer(moved, movementDirection,
                   VNormalizeMilli(VAdd(VScale(a.forward, 9, 10), VScale(movementDirection, 1, 10))))
        ELSE moved

\* the direction of movement: the unit tangent, plus 1.5 times the repulsion when it acts
MovementDirection(tangent, avoidance) ==
    IF avoidance.needed /\ VLengthMilli(avoidance.force) > 10
    THEN VNormalizeMilli(VAdd(VNormalizeMilli(tangent), VScale(avoidance.force, 3, 2)))
    ELSE VNormalizeMilli(tangent)

\* the movement step of updateAIControlledAttacker
AIMove(a, avoidance, currentPath) ==
    IF a.useBezier /\ Len(a.bezierPaths) > 0 /\ Len(currentPath) >= 4
    THEN AIMoveAlong(a, calculateBezierTangent(a.bezierTime \div 10000, currentPath[1],
                                               currentPath[2], currentPath[3], currentPath[4]),
                     MovementDirection(calculateBezierTangent(a.bezierTime \div 10000,
                                                              currentPath[1], currentPath[2],
                                                              currentPath[3], currentPath[4]),
                                       avoidance))
    ELSE a

\* updateAIControlledAttacker(attacker, battlestation, currentTime)
AIMoved(decided, avoidance) ==
    [decided EXCEPT !.attacker = AIMove(decided.attacker, avoidance,
                                        decided.attacker.bezierPaths[decided.attacker.currentBezierPath + 1])]

updateAIControlledAttacker(a, station, currentTime, seed, k) ==
    AIMoved(AIRetarget(a, station, currentTime, seed, k), StationAvoidance(a.position, station))

\* the tail of updateAttacker: speed and currentSpeed follow getAttackerSpeed()
SpeedUpdated(a) == [a EXCEPT !.speed = ATTACKER_SPEED, !.currentSpeed = ATTACKER_SPEED]

updateAttackerBothControllers(a, station, currentTime, seed, k) ==
    [ attacker |-> SpeedUpdated(updateUserControlledAttacker(
                       updateAIControlledAttacker(a, station, currentTime, seed, k).attacker)),
      k |-> k + 1, retargeted |-> FALSE, newTarget |-> VZero, controller |-> "both" ]

\* the controller's result with the tail of updateAttacker applied
Controlled(result, controller) ==
    [ attacker |-> SpeedUpdated(result.attacker), k |-> result.k, retargeted |-> result.retargeted,
      newTarget |-> result.newTarget, controller |-> controller ]

\* updateAttacker(attacker, battlestation, missiles, scene, currentTime)
updateAttacker(a, station, currentTime, seed, k) ==
    IF a.isUserControlled
    THEN Controlled([ attacker |-> updateUserControlledAttacker(a), k |-> k,
                      retargeted |-> FALSE, newTarget |-> VZero ], "user")
    ELSE Controlled(updateAIControlledAttacker(a, station, currentTime, seed, k), "ai")

----------------------------------------------------------------------------
(* Specification SpecAttacker: the attacker under updateAttacker, one call  *)
(* per frame, with the control toggle and the steering input of scene.ts.  *)
(* `call` records the last call: the attacker before it and what ran.      *)

MaxTicks == 4
MaxToggles == 2
AttackerPeriods == { 2000, 4000 }
AttackerSeeds == { 0, 1, 2 }
\* createAttacker places the mesh at a random point of [-100, 100]^3; 1/100 unit
AttackerStarts == { Vec(300, 400, 0), Vec(0, 0, 500), Vec(-500, 0, 0), Vec(0, -300, 400),
                    Vec(6000, -2000, 3000), Vec(-9000, 9000, 9900) }
\* yaw and pitch set from the arrow keys held (YAW_SPEED, PITCH_SPEED = 0.02) or from a
\* swipe, 1/1000 rad; <<0, 0>> is no input, or the neutral camera
SteeringInputs == { <<0, 0>>, <<20, 0>>, <<-20, 20>>, <<35, -50>> }

\* createAttacker(scene, mappedAssets) at startPosition; draws k+1 .. k+3 place the initial
\* target; the mesh gets Quaternion.FromEulerAngles(0, PI, 0) in the first updateAttacker
createAttacker(startPosition, dateNow, seed, k) ==
    LET initialAngle == RandomDraw(seed, k + 1) \div 1000
        initialHeight == getRandomFloat(RandomDraw(seed, k + 2), -120, 120)
        initialRadius == getRandomFloat(RandomDraw(seed, k + 3), 50, 250)
        initialTarget == Vec(DivT(SinTurnMilli(initialAngle + 25, 100) * initialRadius, 1000),
                             initialHeight,
                             DivT(SinTurnMilli(initialAngle, 100) * initialRadius, 1000))
    IN  [ position |-> startPosition,
          right |-> Vec(-1000, 0, 0), up |-> Vec(0, 1000, 0), forward |-> Vec(0, 0, -1000),
          targetChangeTime |-> dateNow,
          speed |-> ATTACKER_SPEED,
          currentSpeed |-> ATTACKER_SPEED,
          bezierPaths |-> << createBezierPath(ToWorld(startPosition), initialTarget, seed, k + 3) >>,
          currentBezierPath |-> 0,
          bezierTime |-> 0,
          useBezier |-> TRUE,
          lastPathUpdateTime |-> dateNow,
          targetReached |-> FALSE,
          isUserControlled |-> FALSE,
          yaw |-> 0,
          pitch |-> 0,
          keys |-> <<0, 0>> ]

InitAttacker ==
    /\ call = [fn |-> "none"]
    /\ now = 0
    /\ period \in AttackerPeriods
    /\ MISSILE_LIFETIME = 0
    /\ missiles = <<>>
    /\ timers = <<>>
    /\ nextBarrageTime = 0
    /\ random \in [seed : AttackerSeeds, drawn : {13}]
    /\ attacker \in { createAttacker(start, 0, random.seed, 0) : start \in AttackerStarts }
    /\ battlestation = createBattlestation
    /\ inputs = InputIdle
    /\ history = [toggles |-> 0, ticks |-> 0]

\* the click handler of the control toggle button; `keys` is the steering input (scene.ts
\* inputMap and swipe) that the user holds from then on
ControlToggle ==
    /\ history.toggles < MaxToggles
    /\ \E input \in SteeringInputs :
          attacker' = IF attacker.isUserControlled
                      THEN [attacker EXCEPT !.isUserControlled = FALSE, !.yaw = 0, !.pitch = 0,
                                            !.keys = <<0, 0>>]
                      ELSE [attacker EXCEPT !.isUserControlled = TRUE, !.keys = input]
    /\ history' = [history EXCEPT !.toggles = @ + 1]
    /\ UNCHANGED <<call, now, period, MISSILE_LIFETIME, missiles, timers, nextBarrageTime,
                   random, battlestation, inputs>>

\* the attacker as updateAttacker finds it in a frame: yaw and pitch come from the input
\* when the user steers and are cleared otherwise
Steered(a) ==
    IF a.isUserControlled THEN [a EXCEPT !.yaw = a.keys[1], !.pitch = a.keys[2]]
    ELSE [a EXCEPT !.yaw = 0, !.pitch = 0]

\* the effect of one frame's updateAttacker on the model's state
FrameUpdated(before, result) ==
    /\ attacker' = result.attacker
    /\ random' = [random EXCEPT !.drawn = result.k]
    /\ call' = [ fn |-> "updateAttacker", before |-> before, controller |-> result.controller,
                 retargeted |-> result.retargeted, newTarget |-> result.newTarget,
                 seed |-> random.seed, k |-> random.drawn ]

\* one frame of the render loop, as far as the attacker goes
UpdateAttacker ==
    /\ history.ticks < MaxTicks
    /\ now' = now + period
    /\ FrameUpdated(Steered(attacker),
                    updateAttacker(Steered(attacker), StationPosition, now',
                                   random.seed, random.drawn))
    /\ history' = [history EXCEPT !.ticks = @ + 1]
    /\ UNCHANGED <<period, MISSILE_LIFETIME, missiles, timers, nextBarrageTime, battlestation,
                   inputs>>

NextAttacker == ControlToggle \/ UpdateAttacker

SpecAttacker == InitAttacker /\ [][NextAttacker]_vars

\* the attacker with its path state replaced by other values
PathForgotten(a) == [a EXCEPT !.bezierPaths = <<>>, !.currentBezierPath = 7, !.bezierTime = 1000000, !.lastPathUpdateTime = -1, !.targetChangeTime = -1, !.targetReached = ~a.targetReached]

\* C13: every updateAttacker call runs exactly one controller, the one that
\* isUserControlled selects at that call; a user-controlled call leaves bezierPaths,
\* currentBezierPath, bezierTime, lastPathUpdateTime, targetChangeTime and targetReached
\* unchanged and its result does not depend on them; the result of an autonomous call does
\* not depend on yaw and pitch.
C13_OneController ==
    call.fn = "updateAttacker" =>
        /\ call.controller = IF call.before.isUserControlled THEN "user" ELSE "ai"
        /\ call.before.isUserControlled =>
             /\ PathState(attacker) = PathState(call.before)
             /\ Pose(attacker) = Pose(updateAttacker(PathForgotten(call.before), StationPosition,
                                                     now, call.seed, call.k).attacker)
        /\ ~call.before.isUserControlled =>
             Pose(attacker) = Pose(updateAttacker([call.before EXCEPT !.yaw = 35, !.pitch = -50],
                                                  StationPosition, now, call.seed, call.k).attacker)

C13_Witness ==
    /\ call.fn = "updateAttacker"
    /\ call.before.isUserControlled
    /\ call.before.yaw # 0
    /\ call.before.pitch # 0
    /\ attacker.forward # call.before.forward
    /\ attacker.position # call.before.position
    /\ attacker.lastPathUpdateTime > 0

\* the cosine (1/1000) of the angle between two vectors
CosBetween(a, b) == VDotMilli(VNormalizeMilli(a), VNormalizeMilli(b))

\* C14: at every autonomous retarget, the heading before the retarget and the straight
\* line from the attacker's position to the accepted target (p0 to p3 of the new path) are
\* at most maxAngle = 25 degrees apart, up to rounding; the new path runs from the
\* position to that target.
C14_TargetWithinMaxAngle ==
    (call.fn = "updateAttacker" /\ call.retargeted) =>
        /\ CosBetween(call.before.forward,
                      VScale(VSub(call.newTarget, call.before.position), 1, 10)) >= MaxAngleCos - 5
        /\ attacker.bezierPaths[1][1] = ToWorld(call.before.position)
        /\ attacker.bezierPaths[1][4] = ToWorld(call.newTarget)

\* C14 as stated: the heading before the retarget and the initial tangent p1 - p0 of the
\* new path are at most 25 degrees apart
C14_TangentWithinMaxAngle ==
    (call.fn = "updateAttacker" /\ call.retargeted) =>
        CosBetween(call.before.forward,
                   VSub(attacker.bezierPaths[1][2], attacker.bezierPaths[1][1])) >= MaxAngleCos - 5

C14_Witness ==
    /\ call.fn = "updateAttacker"
    /\ call.retargeted
    /\ call.newTarget # VScale(TargetCandidate(StationPosition, call.seed, call.k), 100, 1)
    /\ call.before.forward # Vec(0, 0, -1000)
    /\ CosBetween(call.before.forward,
                  VSub(attacker.bezierPaths[1][2], attacker.bezierPaths[1][1])) < 707

----------------------------------------------------------------------------
(* Specification SpecRepulsion: the attacker created 5 units from the       *)
(* battlestation, its first path leading to any of several initial targets *)
(* of the shell around the station, one of them straight across it.        *)

\* positions at distance 5 from the station centre, 1/100 unit
CloseStarts == { Vec(300, 400, 0), Vec(0, 0, 500), Vec(-500, 0, 0), Vec(0, -300, 400) }
\* initial targets (cos(a) r, h, sin(a) r) with 50 <= r <= 250 and -120 <= h <= 120
InitialTargets == { Vec(-60, -80, 0), Vec(0, 0, -200), Vec(150, 0, 0), Vec(0, 90, -120),
                    Vec(0, 120, 50), Vec(60, 80, 0), Vec(-30, -40, 40) }
RepulsionPeriods == { 16, 9000 }

\* the attacker of createAttacker with its first path leading to initialTarget
CreatedToward(a, initialTarget, seed, k) == [a EXCEPT !.bezierPaths = << createBezierPath(ToWorld(a.position), initialTarget, seed, k) >>]

InitRepulsion ==
    /\ call = [fn |-> "none"]
    /\ now = 0
    /\ period \in RepulsionPeriods
    /\ MISSILE_LIFETIME = 0
    /\ missiles = <<>>
    /\ timers = <<>>
    /\ nextBarrageTime = 0
    /\ random \in [seed : AttackerSeeds, drawn : {13}]
    /\ attacker \in { CreatedToward(createAttacker(start, 0, random.seed, 0), target, random.seed, 3) :
                        start \in CloseStarts, target \in InitialTargets }
    /\ battlestation = createBattlestation
    /\ inputs = InputIdle
    /\ history = [toggles |-> 0, ticks |-> 0]

SpecRepulsion == InitRepulsion /\ [][NextAttacker]_vars

\* the square of the distance (1/100 unit) to the centre of the battlestation
StationDistanceSquared(position) == LET d == VSub(position, VScale(StationPosition, 100, 1)) IN d[1] * d[1] + d[2] * d[2] + d[3] * d[3]

\* C15: an autonomous updateAttacker call that finds the attacker at distance 5 from the
\* centre of the battlestation leaves it strictly farther from the centre, whatever the
\* tangent of its path and whether or not the call retargets.
C15_RepelledAtFive ==
    (call.fn = "updateAttacker" /\ ~call.before.isUserControlled
        /\ StationDistanceSquared(call.before.position) = 500 * 500) =>
            StationDistanceSquared(attacker.position) > StationDistanceSquared(call.before.position)

C15_Witness ==
    /\ call.fn = "updateAttacker"
    /\ ~call.before.isUserControlled
    /\ ~call.retargeted
    /\ StationDistanceSquared(call.before.position) = 500 * 500
    /\ CosBetween(VSub(call.before.bezierPaths[1][2], call.before.bezierPaths[1][1]),
                  call.before.position) < -900
    /\ StationDistanceSquared(attacker.position) > 600 * 600

----------------------------------------------------------------------------
(* Claims about the retarget of a missile, over the frames of Spec.        *)

\* the step is a frame: an updateMissiles call at time now'
IsFrame == history'.lastTick = now' /\ history.lastTick # now'
\* the frame replaced the trajectory of the missile that is `before` in missiles and
\* `after` in missiles'
Replaced(before, after) == after.lastPathUpdateTime = now' /\ before.lastPathUpdateTime < now'

\* C16: a frame that processes a live missile replaces its trajectory only if the time
\* since lastPathUpdateTime is more than 2500 ms, or targetReached is set, or the distance
\* to the attacker is below 50; and it always replaces it when targetReached is set or that
\* time is more than 5000 ms.
C16_RetargetPolicy ==
    [][ IsFrame =>
          \A i \in DOMAIN missiles : \A j \in DOMAIN missiles' :
             missiles'[j].id = missiles[i].id =>
                /\ Replaced(missiles[i], missiles'[j]) =>
                      \/ now' - missiles[i].lastPathUpdateTime > PATH_UPDATE_INTERVAL_MIN
                      \/ missiles[i].targetReached
                      \/ attacker.distance < 500
                /\ (missiles[i].targetReached
                      \/ now' - missiles[i].lastPathUpdateTime > PATH_UPDATE_INTERVAL_MAX) =>
                      Replaced(missiles[i], missiles'[j]) ]_vars

C16_Witness ==
    \E i \in DOMAIN missiles :
        /\ attacker.distance >= 500
        /\ period = 3000
        /\ history.fate[missiles[i].id].retargets >= 1
        /\ missiles[i].lastPathUpdateTime = now
        /\ now > 0

\* the frame counted a retarget of the missile created as number id
RetargetCounted(id) == history'.fate[id].retargets > history.fate[id].retargets
\* the missile as a retarget leaves it for the advance of the same frame, seen after that
\* advance: on segment 0, advanced from bezierTime 0, flag cleared, update time set
FreshlyRetargeted(after) ==
    /\ history'.fate[after.id].from = 0
    /\ history'.fate[after.id].raw = CurrentSpeed(after, attacker.distance) * BEZIER_SPEED_FACTOR
    /\ after.currentBezierPath = 0
    /\ after.bezierTime = history'.fate[after.id].raw
    /\ ~after.targetReached
    /\ after.lastPathUpdateTime = now'
    /\ history'.fate[after.id].last = Len(after.bezierPaths) - 1

\* C17: a retarget sets currentBezierPath = 0, bezierTime = 0, targetReached = false and
\* lastPathUpdateTime = currentTime before the advance of the same frame; and a missile
\* whose targetReached flag is set is retargeted, and the flag cleared, by the next frame
\* that processes it.
C17_RetargetResets ==
    [][ IsFrame =>
          \A i \in DOMAIN missiles : \A j \in DOMAIN missiles' :
             missiles'[j].id = missiles[i].id =>
                /\ RetargetCounted(missiles[i].id) => FreshlyRetargeted(missiles'[j])
                /\ missiles[i].targetReached => FreshlyRetargeted(missiles'[j]) ]_vars

\* a first retarget no later than PATH_UPDATE_INTERVAL_MIN after creation and away from the
\* attacker: only a set targetReached flag brings it about
C17_Witness ==
    \E i \in DOMAIN missiles :
        /\ history.fate[missiles[i].id].retargets = 1
        /\ missiles[i].lastPathUpdateTime = now
        /\ now - history.origin[missiles[i].id].at <= PATH_UPDATE_INTERVAL_MIN
        /\ attacker.distance >= 500
        /\ ~missiles[i].targetReached
        /\ missiles[i].currentBezierPath = 0
        /\ missiles[i].bezierTime > 0

\* C18: after a retarget the path has exactly one curve if the distance to the attacker in
\* that frame was below 30 and two to four curves otherwise; its first control point is the
\* missile's position (the origin of the path's coordinates) and its last control point is
\* the intercept point kept in missile.target.
C18_RetargetPathShape ==
    [][ IsFrame =>
          \A i \in DOMAIN missiles : \A j \in DOMAIN missiles' :
             (missiles'[j].id = missiles[i].id /\ Replaced(missiles[i], missiles'[j])) =>
                LET after == missiles'[j]
                    n == Len(after.bezierPaths)
                IN  /\ attacker.distance < 300 => n = 1
                    /\ attacker.distance >= 300 => n \in 2 .. 4
                    /\ after.bezierPaths[1][1] = VZero
                    /\ after.bezierPaths[n][4] = after.target
                    /\ \A c \in 1 .. n - 1 :
                          after.bezierPaths[c][4] = after.bezierPaths[c + 1][1] ]_vars

\* a missile retargeted just below the 30 units and one retargeted at 30 units, onto one
\* curve and onto several
C18_Witness ==
    \E i \in DOMAIN missiles :
        /\ missiles[i].lastPathUpdateTime = now
        /\ history.fate[missiles[i].id].retargets >= 1
        /\ missiles[i].target # history.made[missiles[i].id].target
        /\ \/ attacker.distance = 290 /\ Len(missiles[i].bezierPaths) = 1
           \/ attacker.distance = 300 /\ Len(missiles[i].bezierPaths) >= 3

\* C19: a missile that a frame expires is not retargeted, advanced, moved or hit-tested in
\* that frame (the frame leaves its processing record as it was and consumes no random
\* draw for it); a missile is removed from the array at most once, with at most one
\* explosion, never both the one of the timeout and the one of a hit.
C19_ExpiredUntouched ==
    [][ IsFrame =>
          \A id \in DOMAIN history.made :
             LET f == history.fate[id]
                 g == history'.fate[id]
             IN  /\ g.expired + g.hit <= 1
                 /\ g.expired > f.expired =>
                       /\ g.seen = f.seen /\ g.seen < now'
                       /\ g.retargets = f.retargets
                       /\ g.from = f.from /\ g.raw = f.raw /\ g.last = f.last
                       /\ g.removedAt = now'
                       /\ random' = random
                       /\ \E i \in DOMAIN missiles : missiles[i].id = id
                 /\ (g.expired > f.expired \/ g.hit > f.hit) =>
                       \A j \in DOMAIN missiles' : missiles'[j].id # id
                 /\ f.removedAt >= 0 =>
                       /\ g = f
                       /\ \A j \in DOMAIN missiles' : missiles'[j].id # id ]_vars

\* a missile retargeted during its life, processed by the frame before and expired, not
\* processed, by the last frame
C19_Witness ==
    /\ history.made # <<>>
    /\ missiles = <<>>
    /\ history.fate[1].expired = 1
    /\ history.fate[1].hit = 0
    /\ history.fate[1].removedAt = now
    /\ history.fate[1].seen = now - period
    /\ history.fate[1].retargets >= 1
    /\ period = 3000

----------------------------------------------------------------------------
(* The cascade of a barrage *)

\* the missiles that barrage number b has created by the end of the step
CreatedByNext(b) == { id \in DOMAIN history'.made : history'.origin[id].barrage = b }

\* C20: the missile with groupIndex i of a barrage launched at time T is pushed onto the
\* missiles array no earlier than T + 50 * i; the frame that launches the barrage ends with
\* no missile of the barrage (and no missile at all) in the array, so the count it passes to
\* updateBattlestationAnimations is 0; and the missiles of a barrage are pushed in strictly
\* increasing order of groupIndex.
C20_Cascade ==
    [][ \A b \in DOMAIN history'.launches :
           LET l == history'.launches[b]
               ids == CreatedByNext(b)
           IN  /\ \A id \in ids :
                     history'.origin[id].at >= l.time + 50 * history'.made[id].groupIndex
               /\ \A id1 \in ids : \A id2 \in ids :
                     id1 < id2 => history'.made[id1].groupIndex < history'.made[id2].groupIndex
               /\ b \notin DOMAIN history.launches =>
                     /\ l.time = now'
                     /\ l.live = 0
                     /\ missiles' = <<>>
                     /\ ids = {}
                     /\ Cardinality({ j \in DOMAIN timers' : timers'[j].barrage = b })
                           = l.missileCount ]_vars

\* a barrage all of whose callbacks have run, the last of them 50 * (n - 1) ms after the
\* launch
C20_Witness ==
    \E b \in DOMAIN history.launches : \E id \in CreatedBy(b) :
        /\ PendingOf(b) = {}
        /\ history.made[id].groupIndex = history.launches[b].missileCount - 1
        /\ history.origin[id].at = history.launches[b].time + 50 * history.made[id].groupIndex
        /\ id = Len(history.made)
        /\ Cardinality(CreatedBy(b)) >= ITANO_MISSILE_COUNT_MIN

----------------------------------------------------------------------------
(* Specification SpecCompletion: the attacker whose first path is           *)
(* degenerate.  createAttacker draws the position in [-100, 100]^3 and the  *)
(* initial target independently, so the target can be the position itself: *)
(* the path then has four equal control points, its tangent is zero, the   *)
(* attacker does not move and bezierTime grows by 0.01 per autonomous frame *)
(* until the path is complete.  The specification starts after HoverFrames *)
(* such frames of 16 ms.                                                    *)

HoverFrames == 98
HoverPeriod == 16
CompletionSeeds == 2 .. 9
CompletionPeriods == { 16, 3500 }

\* the initial target that createAttacker draws with the stream of the seed, world units
InitialTargetOf(seed) == createAttacker(VZero, 0, seed, 0).bezierPaths[1][4]

\* the point lies in the cube in which createAttacker places the mesh
InStartCube(p) == \A c \in 1 .. 3 : p[c] >= -100 /\ p[c] <= 100

\* the attacker and the draw counter after n autonomous frames, dt apart, from time t
RECURSIVE AfterFrames(_, _, _, _, _, _)
AfterFrames(a, t, n, dt, seed, k) ==
    IF n = 0 THEN [ attacker |-> a, k |-> k ]
    ELSE LET r == updateAttacker(a, StationPosition, t + dt, seed, k)
         IN  IF r.k > k THEN AfterFrames(r.attacker, t + dt, n - 1, dt, seed, r.k)
             ELSE [ attacker |-> r.attacker, k |-> r.k ]

\* the attacker created on its own initial target, HoverFrames frames later
Hovering(seed) ==
    LET half == HoverFrames \div 2
        first == AfterFrames(createAttacker(VScale(InitialTargetOf(seed), 100, 1), 0, seed, 0),
                             0, half, HoverPeriod, seed, 13)
    IN  IF first.k >= 13
        THEN AfterFrames(first.attacker, half * HoverPeriod, HoverFrames - half, HoverPeriod,
                         seed, first.k)
        ELSE first

InitCompletion ==
    /\ call = [fn |-> "none"]
    /\ now = HoverFrames * HoverPeriod
    /\ period \in CompletionPeriods
    /\ MISSILE_LIFETIME = 0
    /\ missiles = <<>>
    /\ timers = <<>>
    /\ nextBarrageTime = 0
    /\ \E seed \in CompletionSeeds :
          /\ InStartCube(InitialTargetOf(seed))
          /\ random = [seed |-> seed, drawn |-> Hovering(seed).k]
          /\ attacker = Hovering(seed).attacker
    /\ battlestation = createBattlestation
    /\ inputs = InputIdle
    /\ history = [toggles |-> 0, ticks |-> 0]

SpecCompletion == InitCompletion /\ [][NextAttacker]_vars

\* the bezierTime that the movement step leaves on the first frame of a fresh path
FirstAdvance(path, speed) ==
    LET tangentLength == VLengthMilli(calculateBezierTangent(0, path[1], path[2], path[3], path[4]))
    IN  IF tangentLength > 0 THEN Min((speed * 100000) \div tangentLength, 1000000) ELSE 10000

----------------------------------------------------------------------------
(* Specification SpecAvoidance: the repulsion of updateAIControlledAttacker *)
(* applied to attacker positions at bounded distances from the station.    *)

\* distances from the centre of the battlestation, 1/100 unit: the centre, the 0.01 below
\* which the force is dropped, every unit up to just past the avoidance distance
AvoidanceDistances == { 0, 1, 2, 950, 7999 } \cup { 100 * n : n \in 0 .. 81 }
\* directions from the station, as integer vectors of length 1 and 5
AvoidanceDirections == { <<Vec(1, 0, 0), 1>>, <<Vec(0, -1, 0), 1>>, <<Vec(0, 3, 4), 5>>,
                         <<Vec(-4, 0, 3), 5>> }
\* the positions at those distances in those directions, 1/100 unit
AvoidancePositions ==
    { VScale(dir[1], d, dir[2]) : d \in { x \in AvoidanceDistances : x % 5 = 0 },
                                  dir \in AvoidanceDirections }
        \cup { VScale(Vec(1, 0, 0), d, 1) : d \in AvoidanceDistances }

InitAvoidance == call = [fn |-> "none"] /\ WorldIdle

CallStationAvoidance ==
    /\ \E position \in AvoidancePositions :
          call' = [ fn |-> "StationAvoidance", position |-> position,
                    distance |-> VLengthMilli(VSub(position, VScale(StationPosition, 100, 1))),
                    result |-> StationAvoidance(position, StationPosition) ]
    /\ UNCHANGED world

NextAvoidance == CallStationAvoidance

SpecAvoidance == InitAvoidance /\ [][NextAvoidance]_vars

\* the strength of a computed repulsion: the length of the force, 1/1000
Strength(c) == VLengthMilli(c.result.force)
\* the strength at the surface of the battlestation, distance STATION_SIZE / 2, 1/1000
SurfaceStrength ==
    STATION_REPULSION_STRENGTH * 1000 -
       (STATION_REPULSION_STRENGTH * 1000 * (STATION_SIZE \div 2)) \div STATION_AVOIDANCE_DISTANCE

\* C22: the repulsion is zero at and beyond the avoidance distance 80, non-zero only
\* strictly inside it, and for distances d between 0.01 and 80 its strength is
\* STATION_REPULSION_STRENGTH * (1 - d / 80): it grows linearly as d decreases, passes the
\* value 5.25 at the surface of the station (d = 10) and keeps growing inside it, staying
\* below STATION_REPULSION_STRENGTH = 6; at d <= 0.01 no force is applied.
C22_RepulsionLinear ==
    [][ (call'.fn = "StationAvoidance") =>
          LET d == call'.distance
              s == Strength(call')
          IN  /\ d >= STATION_AVOIDANCE_DISTANCE * 100 => (s = 0 /\ ~call'.result.needed)
              /\ s > 0 => d < STATION_AVOIDANCE_DISTANCE * 100
              /\ (d > 1 /\ d < STATION_AVOIDANCE_DISTANCE * 100) =>
                    /\ call'.result.needed
                    /\ Abs(s * STATION_AVOIDANCE_DISTANCE
                             - STATION_REPULSION_STRENGTH * 10 * (STATION_AVOIDANCE_DISTANCE * 100 - d))
                          <= 3 * STATION_AVOIDANCE_DISTANCE
                    /\ s <= STATION_REPULSION_STRENGTH * 1000
              /\ (d > 1 /\ d <= STATION_SIZE * 50 - 50) => s > SurfaceStrength
              /\ d <= 1 => s = 0
              /\ (call.fn = "StationAvoidance" /\ d > 1 /\ call.distance >= d + 50
                    /\ call.distance < STATION_AVOIDANCE_DISTANCE * 100) =>
                    s > Strength(call) ]_vars

\* C22 as stated: the strength at a distance below that of the surface does not exceed
\* the strength at the surface
C22_MaximumAtSurface ==
    (call.fn = "StationAvoidance" /\ call.distance < STATION_SIZE * 50) =>
        Strength(call) <= SurfaceStrength

\* the repulsion computed half-way between the centre and the surface
C22_Witness ==
    /\ call.fn = "StationAvoidance"
    /\ call.distance = 500
    /\ call.position[3] # 0
    /\ Strength(call) > SurfaceStrength + 300

----------------------------------------------------------------------------
(* Claims about the flight of a missile, over the frames of Spec.           *)

\* C23: the forward movement that a frame applies to a live missile is
\* speed * speedMultiplier * 0.1, with speed within [13.5, 16.5] and speedMultiplier 1.3
\* below distance 30, 1.15 from 30 to below 60 and 1.0 otherwise, never above 1.3; it is
\* positive and below 10, so it is never rejected; a movement of 10 or more, or of 0,
\* would leave the position unchanged.
C23_MovementBounded ==
    \A i \in DOMAIN missiles :
        LET m == missiles[i]
            multiplier == SpeedMultiplier(attacker.distance)
            moved == MovementDistance(m, attacker.distance)
        IN  /\ m.speed >= (MISSILE_SPEED * 900) /\ m.speed <= (MISSILE_SPEED * 1100)
            /\ multiplier \in { 100, 115, MAX_SPEED_MULTIPLIER }
            /\ multiplier <= MAX_SPEED_MULTIPLIER
            /\ multiplier = MAX_SPEED_MULTIPLIER <=> attacker.distance < 300
            /\ multiplier = 115 <=> (attacker.distance >= 300 /\ attacker.distance < 600)
            /\ moved = (m.speed * multiplier) \div 1000
            /\ moved > 0
            /\ moved < 10000
            /\ MovementDistance([m EXCEPT !.speed = 100000], 1000) = 0
            /\ MovementDistance([m EXCEPT !.speed = 99990], 1000) = 9999
            /\ MovementDistance([m EXCEPT !.speed = 0], 1000) = 0

\* a missile retargeted, with a redrawn speed, and boosted by 1.3 just below distance 30
C23_Witness ==
    \E i \in DOMAIN missiles :
        /\ history.fate[missiles[i].id].retargets >= 1
        /\ history.fate[missiles[i].id].seen = now
        /\ missiles[i].speed # history.made[missiles[i].id].speed
        /\ attacker.distance = 290
        /\ MovementDistance(missiles[i], attacker.distance) > 1755

\* C25: after a frame has processed a missile, missile.basePosition is the point of the
\* curve at index currentBezierPath at bezierTime, both as the advance of that frame left
\* them; in the frame that moves the cursor from curve i to curve i + 1 it is the start of
\* curve i + 1, the end of curve i.
C25_BaseOnCurrentSegment ==
    \A i \in DOMAIN missiles :
        LET m == missiles[i]
        IN  (history.fate[m.id].seen = now /\ history.lastTick = now) =>
                m.basePosition = BasePosition(m.bezierTime, m.bezierPaths[m.currentBezierPath + 1])

----------------------------------------------------------------------------
(* Claims about the loop of updateMissiles, over the frames of SpecScene.   *)

\* the missile created as number id is in the array after the step
LiveNext(id) == \E j \in DOMAIN missiles' : missiles'[j].id = id

\* C26: one updateMissiles call visits every missile that is in the array when it starts
\* exactly once, whether the backward loop removes missiles by expiry or by a hit on the
\* way; the missiles it removes are exactly those it expired or hit, and the others stay
\* in the array in the order they had.
C26_EachProcessedOnce ==
    [][ IsFrame =>
          /\ \A i \in DOMAIN missiles :
                LET id == missiles[i].id
                    f == history.fate[id]
                    g == history'.fate[id]
                IN  /\ g.visits = f.visits + 1
                    /\ g.expired + g.hit = 0 <=> LiveNext(id)
                    /\ g.expired = 0 => g.seen = now'
                    /\ ~LiveNext(id) => g.removedAt = now'
          /\ \A j \in DOMAIN missiles' : \E i \in DOMAIN missiles : missiles[i].id = missiles'[j].id
          /\ \A j1 \in DOMAIN missiles' : \A j2 \in DOMAIN missiles' :
                j1 < j2 =>
                   \E i1 \in DOMAIN missiles : \E i2 \in DOMAIN missiles :
                      /\ i1 < i2
                      /\ missiles[i1].id = missiles'[j1].id
                      /\ missiles[i2].id = missiles'[j2].id
          /\ \A id \in DOMAIN history.made :
                (~\E i \in DOMAIN missiles : missiles[i].id = id) =>
                    history'.fate[id] = history.fate[id] ]_vars

\* a call that has removed missiles by hits from among others that it left in the array:
\* survivors on both sides of a removed missile
C26_Witness ==
    /\ history.lastTick = now
    /\ \E id1 \in DOMAIN history.made : \E id2 \in DOMAIN history.made :
         \E id3 \in DOMAIN history.made :
          /\ id1 < id2 /\ id2 < id3
          /\ Live(id1) /\ Live(id3)
          /\ history.fate[id2].hit = 1
          /\ history.fate[id2].removedAt = now
          /\ history.fate[id1].seen = now
          /\ history.fate[id3].seen = now
          /\ history.fate[id1].visits >= 1

----------------------------------------------------------------------------
(* Specification SpecSceneFair: the render loop and the barrages of         *)
(* SpecScene, from the initial states of InitLag, with steps that keep      *)
(* occurring up to the horizon MaxTime: the engine's render loop calls the  *)
(* frame callback for every animation frame, and a timer that is due runs.  *)

\* a step of the scene is possible: a frame within the horizon, or a callback that is due
\* (the guards of RenderFrame and TimerFires)
CanStep ==
    IF timers = <<>> THEN now + period <= MaxTime
    ELSE timers[1].due <= now + period \/ now + period <= MaxTime

\* weak fairness of NextScene, with its enabling condition written out as CanStep
SpecSceneFair ==
    InitLag /\ [][NextScene]_vars /\ ([]<>(~CanStep) \/ []<><<NextScene>>_vars)

\* the frames up to the horizon see the lifetime of every missile of the array, and of
\* every missile still to be created by a pending callback, run out
HorizonClear ==
    /\ \A i \in DOMAIN missiles : missiles[i].lifetime + 2 * period <= MaxTime
    /\ \A j \in DOMAIN timers : timers[j].due + MISSILE_LIFETIME + 2 * period <= MaxTime

----------------------------------------------------------------------------
(* Specification SpecRings: the render loop and the barrages of SpecScene   *)
(* with steps that keep occurring up to the horizon MaxTime, for random     *)
(* streams where every missile of a barrage is hit (launches follow each   *)
(* other within seconds) and where a frame falls exactly 2000 ms after a    *)
(* launch.                                                                  *)

RingSeeds == { 1, 3 }

InitRings ==
    /\ InitScene
    /\ random.seed \in RingSeeds
    /\ MISSILE_LIFETIME = MISSILE_LIFETIME_MIN
    /\ attacker.hitDistance = 0

SpecRings ==
    InitRings /\ [][NextScene]_vars /\ ([]<>(~CanStep) \/ []<><<NextScene>>_vars)

\* the changes of ringSpinState that updateBattlestationAnimations is to make
RingEdges ==
    { <<"idle", "spinning_up">>, <<"spinning_up", "active">>, <<"active", "spinning_down">>,
      <<"spinning_down", "idle">>, <<"spinning_up", "spinning_down">> }

\* a barrage is launched in this step
LaunchStep == Len(history.launches') > Len(history.launches)

\* the time of the last launch after this step
LastLaunchNext == history.launches'[Len(history.launches')].time

\* one step of the scene, as far as the rings go
RingStep ==
    LET from == battlestation.ringSpinState
        to == battlestation'.ringSpinState
    IN  /\ to # from => <<from, to>> \in RingEdges
        /\ (from = "idle" /\ to # "idle") => (LaunchStep /\ LastLaunchNext = now')
        /\ (from # "spinning_down" /\ to = "spinning_down") =>
              (history.launches' # <<>> /\ now' - LastLaunchNext > 2000)
        /\ (from = "spinning_down" /\ to = "idle") => now' - history.ringSince >= 3000
        /\ to = "idle" => battlestation'.ringCurrentSpeed = <<0, 0>>

\* the numbers of barrages that the horizon has room for
LaunchCounts == 0 .. (MaxTime \div MISSILE_LAUNCH_INTERVAL_MIN)

\* the frames up to the horizon see a spin-up and a spin-down through
RingHorizon == now + 8000 <= MaxTime

\* C28: ringSpinState changes only along idle -> spinning_up -> active -> spinning_down ->
\* idle and spinning_up -> spinning_down; it leaves idle only in a frame that launches a
\* barrage, enters spinning_down only more than 2000 ms after the last launch, and returns to
\* idle only 3000 ms or more after it began to spin down; in the idle state both ring speeds
\* are 0; and when the rings are not idle, they eventually are, unless a barrage is launched
\* before.
C28_RingCycle ==
    /\ [][RingStep]_vars
    /\ \A n \in LaunchCounts :
          (battlestation.ringSpinState # "idle" /\ RingHorizon /\ Len(history.launches) = n)
             ~> (battlestation.ringSpinState = "idle" \/ Len(history.launches) > n)

\* the rings are idle again after a spin-down that lasted its 3000 ms
C28_Witness ==
    /\ battlestation.ringSpinState = "idle"
    /\ battlestation.lastBarrageLaunchTime > 0
    /\ history.ringSince - battlestation.ringSpinStartTime >= 3000
    /\ battlestation.ringCurrentSpeed = <<0, 0>>

\* C29: after every frame, a battlestation in barrage mode has its rings spinning up or
\* active: every launch starts a spin-up, one during a spin-down included.
C29_BarrageModeSpins ==
    battlestation.isBarrageMode => battlestation.ringSpinState \in {"spinning_up", "active"}

----------------------------------------------------------------------------
(* Specification SpecInput: the input handling of createScene.  Pointer    *)
(* events, key events, camera switches and clicks on the control toggle    *)
(* arrive in any order between the frames of the render loop; a frame sets *)
(* attacker.yaw and attacker.pitch from the input and calls updateAttacker *)
(* with them (the flight of the attacker under updateAttacker is the        *)
(* subject of SpecAttacker).  Here `attacker` is what the input handling    *)
(* reads and writes of the attacker: isUserControlled, yaw, pitch, with    *)
(* yaw and pitch in 1/1000 rad.                                             *)

PointerEventTypes == { "POINTERDOWN", "POINTERUP", "POINTERMOVE" }
\* <<clientX, clientY>> of the pointer events
PointerPositions == { <<0, 0>>, <<6, 3>> }
\* the keys pressed and released
InputKeys == { "ArrowLeft", "ArrowUp" }
KeyboardEventTypes == { "KEYDOWN", "KEYUP" }
InputPeriods == { 16 }

\* SWIPE_SENSITIVITY = 0.005, in 1/1000 rad a pixel
SWIPE_SENSITIVITY == 5
\* YAW_SPEED and PITCH_SPEED = 0.02, in 1/1000 rad
YAW_SPEED == 20
PITCH_SPEED == 20

InitInput ==
    /\ call = [fn |-> "none"]
    /\ now = 0
    /\ period \in InputPeriods
    /\ MISSILE_LIFETIME = 0
    /\ missiles = <<>>
    /\ timers = <<>>
    /\ nextBarrageTime = 0
    /\ random = [seed |-> 0, drawn |-> 0]
    /\ attacker = [isUserControlled |-> FALSE, yaw |-> 0, pitch |-> 0]
    /\ battlestation = createBattlestation
    /\ inputs = InputIdle
    /\ history = [ticks |-> 0, held |-> FALSE, stray |-> FALSE]

\* the handler's early return: the event is ignored
PointerIgnored(a, state) ==
    ~a.isUserControlled \/ state.currentCameraMode = CAMERA_MODE.NEUTRAL

\* the callback of scene.onPointerObservable for one event: the input state after it
PointerState(a, state, type, clientX, clientY) ==
    IF PointerIgnored(a, state) THEN state
    ELSE IF type = "POINTERDOWN"
    THEN [state EXCEPT !.pointerDown = TRUE, !.lastPointerX = clientX, !.lastPointerY = clientY]
    ELSE IF type = "POINTERUP"
    THEN [state EXCEPT !.pointerDown = FALSE]
    ELSE IF state.pointerDown
    THEN [state EXCEPT !.lastPointerX = clientX, !.lastPointerY = clientY]
    ELSE state

\* the callback of scene.onPointerObservable for one event: the attacker after it
PointerSteered(a, state, type, clientX, clientY) ==
    IF PointerIgnored(a, state) \/ type = "POINTERDOWN" THEN a
    ELSE IF type = "POINTERUP"
    THEN [a EXCEPT !.yaw = 0, !.pitch = 0]
    ELSE IF state.pointerDown
    THEN [a EXCEPT !.yaw = (clientX - state.lastPointerX) * SWIPE_SENSITIVITY,
                   !.pitch = (-(clientY - state.lastPointerY)) * SWIPE_SENSITIVITY]
    ELSE a

\* the pointer is held after the event: a POINTERDOWN was delivered and no POINTERUP since
HeldAfter(held, type) ==
    IF type = "POINTERDOWN" THEN TRUE ELSE IF type = "POINTERUP" THEN FALSE ELSE held

\* a pointer event is delivered to scene.onPointerObservable
PointerEvent ==
    /\ \E type \in PointerEventTypes, client \in PointerPositions :
         /\ inputs' = PointerState(attacker, inputs, type, client[1], client[2])
         /\ attacker' = PointerSteered(attacker, inputs, type, client[1], client[2])
         /\ history' = [history EXCEPT
                          !.held = HeldAfter(@, type),
                          !.stray = @ \/ (type = "POINTERMOVE" /\ ~history.held
                                          /\ attacker' # attacker)]
    /\ UNCHANGED <<call, now, period, MISSILE_LIFETIME, missiles, timers, nextBarrageTime,
                   random, battlestation>>

\* a key event is delivered to scene.onKeyboardObservable
KeyboardEvent ==
    /\ \E type \in KeyboardEventTypes, key \in InputKeys :
         inputs' = [inputs EXCEPT !.inputMap[key] = (type = "KEYDOWN")]
    /\ UNCHANGED <<call, now, period, MISSILE_LIFETIME, missiles, timers, nextBarrageTime,
                   random, attacker, battlestation, history>>

\* switchCamera(), on the space bar or a double tap
SwitchCamera ==
    /\ inputs' = [inputs EXCEPT !.currentCameraMode = (@ + 1) % 4]
    /\ UNCHANGED <<call, now, period, MISSILE_LIFETIME, missiles, timers, nextBarrageTime,
                   random, attacker, battlestation, history>>

\* the click handler of the control toggle button
ControlToggleClick ==
    /\ attacker' = IF attacker.isUserControlled
                   THEN [attacker EXCEPT !.isUserControlled = FALSE, !.yaw = 0, !.pitch = 0]
                   ELSE [attacker EXCEPT !.isUserControlled = TRUE]
    /\ UNCHANGED <<call, now, period, MISSILE_LIFETIME, missiles, timers, nextBarrageTime,
                   random, battlestation, inputs, history>>

\* "Handle user control inputs" of the render loop: attacker.yaw
FrameYaw(a, state) ==
    IF a.isUserControlled /\ state.currentCameraMode # CAMERA_MODE.NEUTRAL
    THEN IF state.inputMap["ArrowLeft"] THEN -YAW_SPEED
         ELSE IF state.inputMap["ArrowRight"] THEN YAW_SPEED
         ELSE IF ~state.pointerDown THEN 0
         ELSE a.yaw
    ELSE 0

\* "Handle user control inputs" of the render loop: attacker.pitch
FramePitch(a, state) ==
    IF a.isUserControlled /\ state.currentCameraMode # CAMERA_MODE.NEUTRAL
    THEN IF state.inputMap["ArrowUp"] THEN PITCH_SPEED
         ELSE IF state.inputMap["ArrowDown"] THEN -PITCH_SPEED
         ELSE IF ~state.pointerDown THEN 0
         ELSE a.pitch
    ELSE 0

\* one frame of the render loop, as far as the input goes: yaw and pitch are set and
\* updateAttacker is called with them
InputFrame ==
    /\ history.ticks < MaxTicks
    /\ now' = now + period
    /\ attacker' = [attacker EXCEPT !.yaw = FrameYaw(attacker, inputs),
                                    !.pitch = FramePitch(attacker, inputs)]
    /\ call' = [ fn |-> "updateAttacker", isUserControlled |-> attacker.isUserControlled,
                 currentCameraMode |-> inputs.currentCameraMode,
                 yaw |-> attacker'.yaw, pitch |-> attacker'.pitch ]
    /\ history' = [history EXCEPT !.ticks = @ + 1]
    /\ UNCHANGED <<period, MISSILE_LIFETIME, missiles, timers, nextBarrageTime, random,
                   battlestation, inputs>>

NextInput == PointerEvent \/ KeyboardEvent \/ SwitchCamera \/ ControlToggleClick \/ InputFrame

SpecInput == InitInput /\ [][NextInput]_vars

\* C30: pointerDown is true only while the pointer is held, that is between a POINTERDOWN
\* and the next POINTERUP delivered; no POINTERMOVE delivered while the pointer is not held
\* changes yaw or pitch; and every updateAttacker call made with user control disabled or
\* with the neutral camera gets yaw = 0 and pitch = 0.
C30_PointerDownWhileHeld ==
    /\ inputs.pointerDown => history.held
    /\ ~history.stray
    /\ (call.fn = "updateAttacker"
        /\ (~call.isUserControlled \/ call.currentCameraMode = CAMERA_MODE.NEUTRAL))
          => (call.yaw = 0 /\ call.pitch = 0)

====
